---- MODULE Spec2Model ----
(***************************************************************************)
(* Model of the market-data provider (src/data_provider.py) and of the     *)
(* rule-based signal synthesizer (src/advanced_analysis.py).               *)
(*                                                                         *)
(* Conventions                                                             *)
(*   - prices are integers in units of 1e-4 (EURUSD 1.0850 = 10850);       *)
(*   - a float that may be NaN is a rational [n, d]; d = 0 is NaN;         *)
(*   - the clock `now` counts seconds;                                     *)
(*   - a DataFrame is [kind, rows, cols, RSI]: kind "None" is Python's     *)
(*     None, rows the candles, cols the column names, RSI the last value   *)
(*     of the RSI column when that column is present.                      *)
(***************************************************************************)
EXTENDS Integers, Sequences, FiniteSets, TLC

\* ------------------------------------------------------------------ bounds
\* number of clock advances explored
MaxTicks == 1
\* number of handler calls explored
MaxCalls == 2
\* candles produced by the synthetic generator (the code produces 500)
SyntheticPeriods == 12
\* the per-process salt of Python's str hash ranges over 0..MaxSalt
MaxSalt == 1
\* applications of a signal rule explored from one state
MaxApplications == 1

\* --------------------------------------------------------------- constants
CACHE_TIMEOUT == 600
FAST_TIMEOUT == 60
\* TradingConfig.DATA_CACHE_TIMEOUT when the environment does not set it
DEFAULT_DATA_CACHE_TIMEOUT == 300
SECONDS_PER_DAY == 86400
SECONDS_PER_HOUR == 3600
HASH_MOD == 10000
OUTLIER_MIN_ROWS == 10
IQR_FACTOR == 3
MA_SHORT == 20
MA_MID == 50
MA_LONG == 200
RSI_PERIOD == 14
SR_WINDOW == 20
HISTORY_MIN_CONFIDENCE == 60
MAX_CONFIDENCE == 95

\* ---------------------------------------------------------------- the state
VARIABLES
    now,                 \* datetime.now(), in seconds
    ticks,               \* clock advances so far
    calls,               \* handler calls so far
    cache,               \* DataProvider._cache: key -> [cached_time, data]
    cache_timeout,       \* DataProvider.cache_timeout
    data_sources,        \* DataProvider.data_sources
    source_status,       \* DataProvider.source_status
    ta_available,        \* DataProvider.ta_available
    mt5_available,       \* DataProvider.mt5_available
    twelvedata_api_key,  \* DataProvider.twelvedata_api_key
    hash_salt,           \* the process's str-hash salt (PYTHONHASHSEED)
    signals_history,     \* AdvancedAnalysis.signals_history
    last,                \* what the latest handler call did and returned
    fetched,             \* key -> [t, data]: the latest fetch that returned a series
    np_random,           \* the state of numpy's global random stream
    inflight,            \* thread -> the get_symbol_data call it is in
    writers,             \* the threads that wrote self._cache, in order
    objects,             \* the DataFrame objects handed to callers or cached
    cache_ref,           \* cache key -> the object self._cache holds for it
    held,                \* the objects callers hold
    config,              \* the TradingConfig passed to DataProvider.__init__
    probed,              \* what the latest on-demand test_all_sources returned
    main_frame,          \* main_bot.main: its position and locals
    risk_manager,        \* the RiskManager's fields
    updates,             \* update_trade_result calls so far
    hour,                \* datetime.now().hour
    sessions,            \* SessionManager.sessions
    refreshed,           \* <<the hour of the latest get_current_sessions call>>
    deepseek             \* the DeepSeekProvider and its api_key

vars == <<now, ticks, calls, cache, cache_timeout, data_sources, source_status,
          ta_available, mt5_available, twelvedata_api_key, hash_salt,
          signals_history, last, fetched, np_random, inflight, writers,
          objects, cache_ref, held, config, probed,
          main_frame, risk_manager, updates, hour, sessions, refreshed,
          deepseek>>

\* the objects beside the data provider and the analysis
beside ==
    <<main_frame, risk_manager, updates, hour, sessions, refreshed, deepseek>>

\* ------------------------------------------------------------- arithmetic
Rat(n, d) == [n |-> n, d |-> d]
NaN == Rat(0, 0)
IsNaN(x) == x.d = 0
\* float comparisons: every comparison with NaN is false
Lt(a, b) == ~IsNaN(a) /\ ~IsNaN(b) /\ a.n * b.d < b.n * a.d
Gt(a, b) == Lt(b, a)
RatEq(a, b) == ~IsNaN(a) /\ ~IsNaN(b) /\ a.n * b.d = b.n * a.d
Abs(x) == IF x < 0 THEN -x ELSE x
Max2(a, b) == IF a >= b THEN a ELSE b
Min2(a, b) == IF a <= b THEN a ELSE b
Range(s) == {s[i] : i \in DOMAIN s}

RECURSIVE SumRange(_, _, _)
\* s[lo] + ... + s[hi], by halving
SumRange(s, lo, hi) ==
    IF lo > hi THEN 0
    ELSE IF lo = hi THEN s[lo]
    ELSE LET mid == (lo + hi) \div 2
         IN  SumRange(s, lo, mid) + SumRange(s, mid + 1, hi)
SumSeq(s) == SumRange(s, 1, Len(s))

\* the last k elements of s (all of s when it is shorter)
LastN(s, k) == IF Len(s) <= k THEN s ELSE SubSeq(s, Len(s) - k + 1, Len(s))

\* the sequence s with every element evaluated
Strict(s) == SubSeq(s, 1, Len(s))

\* ------------------------------------------------------------- data frames
OHLC == <<"Open", "High", "Low", "Close">>
OHLCV == {"Open", "High", "Low", "Close", "Volume"}

\* Python's None, and pd.DataFrame()
None == [kind |-> "None", rows |-> <<>>, cols |-> {}, RSI |-> NaN]
EmptyFrame == [kind |-> "df", rows |-> <<>>, cols |-> {}, RSI |-> NaN]
Frame(rows, cols) == [kind |-> "df", rows |-> rows, cols |-> cols, RSI |-> NaN]
IsNone(df) == df.kind = "None"
\* DataFrame.empty: some axis has length 0
IsEmpty(df) == Len(df.rows) = 0 \/ df.cols = {}

Candle(t, o, h, l, c, v, na) ==
    [t |-> t, Open |-> o, High |-> h, Low |-> l, Close |-> c, Volume |-> v, na |-> na]
Col(rows, col) == Strict([i \in DOMAIN rows |-> rows[i][col]])

\* Series.quantile(k/20) times 20 of the sorted values, by linear interpolation
\* between the order statistics at floor and floor + 1 of k*(n-1)/20
Quantile20(sorted, k) ==
    LET pos == k * (Len(sorted) - 1)
        lo  == pos \div 20
        r   == pos % 20
    IN  IF r = 0 THEN 20 * sorted[lo + 1]
        ELSE (20 - r) * sorted[lo + 1] + r * sorted[lo + 2]

\* data[(data[col] >= lower) & (data[col] <= upper)], the bounds times 20
Within(rows, col, lower, upper) ==
    LET keep(row) == 20 * row[col] >= lower /\ 20 * row[col] <= upper
    IN  SelectSeq(rows, keep)

\* one pass of the outlier filter of _clean_data over column col
FilterOutliers(rows, col) ==
    IF Len(rows) > OUTLIER_MIN_ROWS
    THEN LET sorted == SortSeq(Col(rows, col), LAMBDA a, b : a < b)
             Q1     == Quantile20(sorted, 1)
             Q3     == Quantile20(sorted, 19)
             IQR    == Q3 - Q1
         IN  Within(rows, col, Q1 - IQR_FACTOR * IQR, Q3 + IQR_FACTOR * IQR)
    ELSE rows

RECURSIVE FilterAll(_, _)
FilterAll(rows, colseq) ==
    IF colseq = <<>> THEN rows
    ELSE FilterAll(FilterOutliers(rows, Head(colseq)), Tail(colseq))

\* DataFrame.dropna(subset = required columns)
DropNa(rows) ==
    LET keep(row) == row.na \cap Range(OHLC) = {}
    IN  SelectSeq(rows, keep)

\* a cleaning that does not look for the required columns
clean_without_column_check(data) ==
    IF IsEmpty(data) THEN data
    ELSE [data EXCEPT !.rows = FilterAll(DropNa(data.rows), OHLC)]
\* _clean_data
clean_data(data) ==
    IF IsEmpty(data) THEN data
    ELSE IF ~(Range(OHLC) \subseteq data.cols) THEN EmptyFrame
    ELSE [data EXCEPT !.rows = FilterAll(DropNa(data.rows), OHLC)]

\* ------------------------------------------------- synthetic series generator
base_prices(symbol) ==
    CASE symbol = "EURUSD" -> 10850
      [] symbol = "GBPUSD" -> 12650
      [] symbol = "USDJPY" -> 1495000
      [] symbol = "USDCHF" -> 8850
      [] symbol = "USDCAD" -> 13600
      [] symbol = "AUDUSD" -> 6550
      [] symbol = "NZDUSD" -> 6100
      [] symbol = "XAUUSD" -> 19855000
      [] symbol = "XAGUSD" -> 232500
      [] symbol = "USOIL"  -> 758000
      [] OTHER -> 10000

\* Python's hash(symbol): a fixed function of the symbol within one process,
\* salted per process
SymbolCode(symbol) ==
    CASE symbol = "EURUSD" -> 1
      [] symbol = "GBPUSD" -> 2
      [] symbol = "USDJPY" -> 3
      [] symbol = "USDCHF" -> 4
      [] symbol = "USDCAD" -> 5
      [] symbol = "AUDUSD" -> 6
      [] symbol = "XAUUSD" -> 7
      [] symbol = "USOIL"  -> 8
      [] OTHER -> 9
PyHash(symbol, salt) == 7919 * SymbolCode(symbol) + 104729 * salt

\* the global numpy random stream: a linear congruential generator stands for
\* the Mersenne twister
RngNext(s) == (75 * s + 74) % 32749
\* k draws map a state s to (a * s + c) % 32749; RngJump(k) is that <<a, c>>,
\* by repeated squaring
RECURSIVE RngJump(_)
RngJump(k) ==
    IF k = 0 THEN <<1, 0>>
    ELSE IF k % 2 = 1
    THEN LET j == RngJump(k - 1)
         IN  <<(75 * j[1]) % 32749, (75 * j[2] + 74) % 32749>>
    ELSE LET j == RngJump(k \div 2)
         IN  <<(j[1] * j[1]) % 32749, (j[1] * j[2] + j[2]) % 32749>>
\* the state after k draws from a stream seeded with s
RngAt(s, k) == LET j == RngJump(k) IN (j[1] * (s % 32749) + j[2]) % 32749
\* a standard normal deviate, in whole standard deviations
Normal(s) == (s % 5) - 2
\* np.random.random(), in tenths
Uniform10(s) == s % 10

\* 1000 * sin(i / d) for 0 <= i / d < 1 (two terms of the series)
SinMilli(i, d) == (1000 * i) \div d - (1000 * i * i * i) \div (6 * d * d * d)

\* price * (1 + bp / 10000)
ScaleBp(price, bp) == price + (price * bp) \div 10000

RECURSIVE CumPrices(_, _, _)
\* prices[i] = base_price * prod(1 + returns[0..i]); returns ~ N(0.0001, 0.005)
CumPrices(prev, seed, i) ==
    IF i > SyntheticPeriods THEN <<>>
    ELSE LET ret == 1 + 50 * Normal(RngAt(seed, i))
             p   == ScaleBp(prev, ret)
         IN  <<p>> \o CumPrices(p, seed, i + 1)

\* a candle whose high and low are not widened to cover open and close
UnorderedCandle(price, seed, i, t) ==
    LET k          == SyntheticPeriods + 4 * (i - 1)
        volatility == 2000 + SinMilli(i - 1, 50)
        zh         == Normal(RngAt(seed, k + 1))
        zl         == Normal(RngAt(seed, k + 2))
        zc         == Normal(RngAt(seed, k + 3))
    IN  Candle(t, price, ScaleBp(price, (Abs(zh) * volatility) \div 100),
               ScaleBp(price, 0 - (Abs(zl) * volatility) \div 100),
               ScaleBp(price, (zc * volatility) \div 200), 800000, {})

\* candle i (1-based) of the synthetic series; the stream has already given
\* SyntheticPeriods draws to the returns, and gives four draws to each candle
SyntheticCandle(price, seed, i, t) ==
    LET k          == SyntheticPeriods + 4 * (i - 1)
        volatility == 2000 + SinMilli(i - 1, 50)
        zh         == Normal(RngAt(seed, k + 1))
        zl         == Normal(RngAt(seed, k + 2))
        zc         == Normal(RngAt(seed, k + 3))
        u          == Uniform10(RngAt(seed, k + 4))
        open_price == price
        high_raw   == ScaleBp(price, (Abs(zh) * volatility) \div 100)
        low_raw    == ScaleBp(price, 0 - (Abs(zl) * volatility) \div 100)
        close_price == ScaleBp(price, (zc * volatility) \div 200)
        high_price == Max2(Max2(open_price, close_price), high_raw)
        low_price  == Min2(Min2(open_price, close_price), low_raw)
        volume     == 800000 + 400 * SinMilli(i - 1, 20) + 30000 * u
    IN  Candle(t, open_price, high_price, low_price, close_price, volume, {})

\* a stream left as the draws before this generation left it
np_unseeded(symbol, salt) == np_random
\* np.random.seed(hash(symbol) % 10000): the state the stream is set to
np_seed(symbol, salt) == PyHash(symbol, salt) % HASH_MOD
\* the stream after a generation: the returns took SyntheticPeriods draws, each
\* candle four
StreamAfter(symbol, salt) == RngAt(np_seed(symbol, salt), 5 * SyntheticPeriods)

\* the body of _get_dynamic_default_data's try block
GenerateSeries(symbol, salt, t_now) ==
    LET seed   == np_seed(symbol, salt)
        prices == CumPrices(base_prices(symbol), seed, 1)
        rows   == Strict([i \in 1..SyntheticPeriods |->
                     SyntheticCandle(prices[i], seed, i,
                         t_now - (SyntheticPeriods - i) * SECONDS_PER_HOUR)])
    IN  clean_data(Frame(rows, OHLCV))

\* the symbols the callers ask for
KnownSymbols ==
    <<"EURUSD", "GBPUSD", "USDJPY", "USDCHF", "USDCAD", "AUDUSD", "XAUUSD", "USOIL">>
SymbolIndex(symbol) == CHOOSE i \in DOMAIN KnownSymbols : KnownSymbols[i] = symbol

\* The clock enters the series only through its time index, so the series of
\* every (symbol, salt) is computed once, at time 0, and re-indexed per call.
SeriesAtZero ==
    Strict([k \in 1..(Len(KnownSymbols) * (MaxSalt + 1)) |->
        GenerateSeries(KnownSymbols[((k - 1) % Len(KnownSymbols)) + 1],
                       (k - 1) \div Len(KnownSymbols), 0)])
Reindex(df, t_now) ==
    [df EXCEPT !.rows = Strict([i \in DOMAIN df.rows |-> [df.rows[i] EXCEPT !.t = @ + t_now]])]

\* _get_dynamic_default_data: ok = FALSE is the path through its except clause
get_dynamic_default_data(symbol, salt, t_now, ok) ==
    IF ~ok THEN None
    ELSE IF symbol \in Range(KnownSymbols)
    THEN Reindex(SeriesAtZero[salt * Len(KnownSymbols) + SymbolIndex(symbol)], t_now)
    ELSE GenerateSeries(symbol, salt, t_now)

\* --------------------------------------------------------- upstream responses
\* What a source's upstream (the MT5 terminal, the Twelve Data HTTP API) gives
\* to one adapter call: a failure, or a raw frame of a small family.
\*   "error"     an exception inside the adapter (caught there, None returned)
\*   "nodata"    no rates / no 'values' in the reply (None returned)
\*   "malformed" a frame without its Close column
\*   "frame"     a frame with all columns: a steady rise, or a range that
\*               holds one NaN close and one outlier high
ResponseList ==
    << [kind |-> "error", shape |-> "none", n |-> 0],
       [kind |-> "nodata", shape |-> "none", n |-> 0],
       [kind |-> "malformed", shape |-> "rise", n |-> 12],
       [kind |-> "frame", shape |-> "rise", n |-> 50],
       [kind |-> "frame", shape |-> "range", n |-> 50] >>
Responses == Range(ResponseList)
\* further frames an upstream can give, told apart by length and by the course
\* of the closes: a rise of 2, 15, 30 and 60 candles, and 50 candles that never
\* move or that fall throughout
SeriesList ==
    << [kind |-> "frame", shape |-> "rise", n |-> 2],
       [kind |-> "frame", shape |-> "rise", n |-> 15],
       [kind |-> "frame", shape |-> "rise", n |-> 30],
       [kind |-> "frame", shape |-> "rise", n |-> 60],
       [kind |-> "frame", shape |-> "flat", n |-> 50],
       [kind |-> "frame", shape |-> "fall", n |-> 50] >>
AllResponseList == ResponseList \o SeriesList

ShapeClose(shape, i) ==
    CASE shape = "rise"  -> 10000 + 30 * i
      [] shape = "fall"  -> 20000 - 30 * i
      [] shape = "flat"  -> 10000
      [] shape = "range" -> 10000 + (CASE i % 4 = 1 -> 300
                                       [] i % 4 = 3 -> 0 - 300
                                       [] OTHER -> 0)
ShapeCandle(shape, i) ==
    LET c == ShapeClose(shape, i)
        o == IF i = 1 THEN c ELSE ShapeClose(shape, i - 1)
    IN  Candle(i * SECONDS_PER_HOUR, o, Max2(o, c) + 5, Min2(o, c) - 5, c, 1000, {})

RawFrame(resp) ==
    LET rows == Strict([i \in 1..resp.n |-> ShapeCandle(resp.shape, i)])
    IN  CASE resp.kind = "frame" /\ resp.shape = "range" ->
                Frame([rows EXCEPT ![2].na = {"Close"}, ![3].High = 10 * @], OHLCV)
          [] resp.kind = "frame" -> Frame(rows, OHLCV)
          [] resp.kind = "malformed" -> Frame(rows, OHLCV \ {"Close"})
          [] OTHER -> EmptyFrame

\* the tail shared by the adapters: None on a failure, else the cleaned frame
CleanedList ==
    Strict([i \in DOMAIN AllResponseList |->
        IF AllResponseList[i].kind \in {"error", "nodata"} THEN None
        ELSE clean_data(RawFrame(AllResponseList[i]))])
CleanedResponse(resp) ==
    CleanedList[CHOOSE i \in DOMAIN AllResponseList : AllResponseList[i] = resp]

TD_SYMBOLS == {"EURUSD", "GBPUSD", "USDJPY", "USDCHF", "USDCAD", "AUDUSD", "NZDUSD", "XAUUSD"}

\* _get_mt5_data
get_mt5_data(available, symbol, resp) ==
    IF ~available THEN None ELSE CleanedResponse(resp)

\* _get_twelvedata_data
get_twelvedata_data(api_key, symbol, resp) ==
    IF api_key = "demo" THEN None
    ELSE IF symbol \notin TD_SYMBOLS THEN None
    ELSE CleanedResponse(resp)

\* ------------------------------------------------------ technical indicators
\* The indicator engine (pandas_ta) is a library: what it computes is drawn by
\* the environment.  "ok" adds every column, the RSI column ending in ta.rsi;
\* "raise" raises before any column is added.
INDICATOR_COLS ==
    {"MA20", "MA50", "MA200", "RSI", "MACD", "MACD_Signal", "MACD_Histogram",
     "BB_Upper", "BB_Lower", "BB_Middle", "Stoch_K", "Stoch_D", "ATR", "Volume_MA20"}
TaOutcomes ==
    {[outcome |-> "ok", rsi |-> Rat(75, 1)], [outcome |-> "raise", rsi |-> NaN]}

\* an attach step that gives up the series when the engine raises
indicators_or_none(data, available, ta) ==
    IF IsEmpty(data) \/ ~available THEN data
    ELSE IF ta.outcome = "ok"
    THEN [data EXCEPT !.cols = @ \cup INDICATOR_COLS, !.RSI = ta.rsi]
    ELSE None
\* _add_technical_indicators
add_technical_indicators(data, available, ta) ==
    IF IsEmpty(data) \/ ~available THEN data
    ELSE IF ta.outcome = "ok"
    THEN [data EXCEPT !.cols = @ \cup INDICATOR_COLS, !.RSI = ta.rsi]
    ELSE data

Sources == {"mt5", "twelvedata"}
Symbols == {"EURUSD", "GBPUSD"}
\* the (period, interval) pairs the callers use
PeriodIntervals == {<<"3mo", "4h">>}
\* an environment of one call: each source's upstream, the indicator engine,
\* and whether the synthetic generator runs through
Envs == [resp : [Sources -> Responses], ta : TaOutcomes, gen_ok : BOOLEAN]

CacheKey(symbol, period, interval) == <<symbol, period, interval>>
\* timedelta.seconds: the seconds field of the normalized (days, seconds) pair
TimedeltaSeconds(delta) == delta % SECONDS_PER_DAY
\* the freshness test of get_symbol_data
IsFresh(cached_time) == TimedeltaSeconds(now - cached_time) < cache_timeout

\* one adapter call
CallAdapter(source, symbol, resp) ==
    CASE source = "mt5" -> get_mt5_data(mt5_available, symbol, resp)
      [] source = "twelvedata" -> get_twelvedata_data(twelvedata_api_key, symbol, resp)
      [] OTHER -> None

\* a success test that forgets the emptiness check
NotNone(data) == ~IsNone(data)
Succeeded(data) == ~IsNone(data) /\ ~IsEmpty(data)

\* a source list that ignores the health map
all_sources == data_sources
\* working_sources = [src for src in data_sources if source_status.get(src, False)]
working_sources ==
    LET healthy(src) == src \in DOMAIN source_status /\ source_status[src]
    IN  SelectSeq(data_sources, healthy)

\* a loop that does not stop at the first success
RECURSIVE TrySourcesAll(_, _, _)
TrySourcesAll(srcs, symbol, env) ==
    IF srcs = <<>> THEN [ok |-> FALSE, data |-> None, invoked |-> <<>>]
    ELSE LET source == Head(srcs)
             data   == CallAdapter(source, symbol, env.resp[source])
             rest   == TrySourcesAll(Tail(srcs), symbol, env)
         IN  IF rest.ok \/ ~(~IsNone(data) /\ ~IsEmpty(data))
             THEN [rest EXCEPT !.invoked = <<source>> \o @]
             ELSE [ok |-> TRUE, data |-> data, invoked |-> <<source>> \o rest.invoked]

RECURSIVE TrySources(_, _, _)
\* the for loop over working_sources: the first success ends it.
\* invoked lists the adapters called, in order; data is the successful one's
TrySources(srcs, symbol, env) ==
    IF srcs = <<>> THEN [ok |-> FALSE, data |-> None, invoked |-> <<>>]
    ELSE LET source == Head(srcs)
             data   == CallAdapter(source, symbol, env.resp[source])
         IN  IF Succeeded(data)
             THEN [ok |-> TRUE, data |-> data, invoked |-> <<source>>]
             ELSE LET rest == TrySources(Tail(srcs), symbol, env)
                  IN  [rest EXCEPT !.invoked = <<source>> \o @]

Store(c, key, data) == (key :> [cached_time |-> now, data |-> data]) @@ c

\* the outcome of a call that went past the cache: what it returns, the cache
\* it leaves, and the adapters and generator it invoked, in order
Miss(data, c, invoked) ==
    [ret |-> data, cache |-> c, hit |-> FALSE, cached_time |-> now, invoked |-> invoked]

\* get_symbol_data, c being self._cache at the call
get_symbol_data(c, symbol, period, interval, env) ==
    LET cache_key == CacheKey(symbol, period, interval)
    IN  IF cache_key \in DOMAIN c /\ IsFresh(c[cache_key].cached_time)
        THEN [ret |-> c[cache_key].data, cache |-> c, hit |-> TRUE,
              cached_time |-> c[cache_key].cached_time, invoked |-> <<>>]
        ELSE IF working_sources = <<>>
        THEN Miss(get_dynamic_default_data(symbol, hash_salt, now, env.gen_ok),
                  c, <<"synthetic">>)
        ELSE LET try == TrySources(working_sources, symbol, env)
             IN  IF try.ok
                 THEN LET data == add_technical_indicators(try.data, ta_available, env.ta)
                      IN  Miss(data, Store(c, cache_key, data), try.invoked)
                 ELSE LET raw == get_dynamic_default_data(symbol, hash_salt, now, env.gen_ok)
                          data == add_technical_indicators(raw, ta_available, env.ta)
                      IN  IF ~IsNone(raw)
                          THEN Miss(data, Store(c, cache_key, data),
                                    try.invoked \o <<"synthetic">>)
                          ELSE Miss(None, c, try.invoked \o <<"synthetic">>)

\* numpy's stream after the call r of get_symbol_data for symbol: a generation
\* that ran through has reseeded it and drawn from it
StreamAfterCall(rng, symbol, r) ==
    IF "synthetic" \in Range(r.invoked) /\ ~IsNone(r.ret)
    THEN StreamAfter(symbol, hash_salt) ELSE rng

\* a health map in which every adapter that was invoked and followed by
\* another attempt (it failed) is marked unhealthy
status_marking_failures(status, invoked) ==
    [src \in DOMAIN status |->
        IF \E i \in DOMAIN invoked : i < Len(invoked) /\ invoked[i] = src
        THEN FALSE ELSE status[src]]
\* self.source_status after a call that invoked the given adapters: no
\* statement of the handlers assigns it, whatever the adapters returned
source_status_after(status, invoked) == status

\* test_all_sources: each source probed once on the canonical symbol
test_all_sources(avail, api_key, resp) ==
    [src \in Sources |->
        Succeeded(CASE src = "mt5" -> get_mt5_data(avail, "EURUSD", resp[src])
                    [] OTHER -> get_twelvedata_data(api_key, "EURUSD", resp[src]))]

NoCall == [op |-> "none"]

\* the threads that call the provider: the warm-up thread started by
\* _preload_data_async and the thread that runs the command handlers
Threads == {"preload", "handler"}
\* a thread that is in no call of get_symbol_data
NoFlight == [pc |-> "idle", data |-> None, stamp |-> 0, ret |-> None]

\* ------------------------------------------- the objects beside the provider
\* main_bot.main: max_retries and retry_delay as main() sets them
main_max_retries == 5
main_retry_delay == 30
\* the frame of main() as its loop starts: log keeps, for every attempt made,
\* how the run ended and the seconds main() slept after it
MainStart ==
    [pc |-> "loop", attempt |-> 0, retry_delay |-> main_retry_delay,
     log |-> <<>>, raised |-> "none"]

\* float products and sums; NaN in, NaN out
Times(a, b) == IF IsNaN(a) \/ IsNaN(b) THEN NaN ELSE Rat(a.n * b.n, a.d * b.d)
Plus(a, b) ==
    IF IsNaN(a) \/ IsNaN(b) THEN NaN ELSE Rat(a.n * b.d + b.n * a.d, a.d * b.d)
Neg(a) == IF IsNaN(a) THEN NaN ELSE Rat(-a.n, a.d)
\* a >= b on floats: false when either is NaN
Ge(a, b) == ~IsNaN(a) /\ ~IsNaN(b) /\ a.n * b.d >= b.n * a.d

\* RiskManager.__init__
DEFAULT_INITIAL_BALANCE == 10000
risk_per_trade == Rat(3, 100)
max_daily_risk == Rat(9, 100)
RiskManagerInit(initial_balance) ==
    [account_balance  |-> initial_balance,
     daily_loss_limit |-> Times(initial_balance, max_daily_risk),
     today_losses     |-> Rat(0, 1),
     total_trades     |-> 0,
     winning_trades   |-> 0]

\* no get_current_sessions call yet
NEVER == <<>>
\* SessionManager.__init__: the opening and closing hours, nobody active
SessionNames == {"tokyo", "london", "newyork"}
SessionManagerInit ==
    [s \in SessionNames |->
        [open   |-> CASE s = "tokyo" -> 0 [] s = "london" -> 8 [] OTHER -> 13,
         close  |-> CASE s = "tokyo" -> 9 [] s = "london" -> 16 [] OTHER -> 22,
         active |-> FALSE]]

\* DeepSeekProvider: max_retries, and the provider before it is constructed
deepseek_max_retries == 3
NoProvider == [constructed |-> FALSE, api_key |-> ""]

\* TradingConfig.__init__: the settings read from the process environment,
\* the cache timeout at its default and the Twelve Data key absent or set
TradingConfigs ==
    [DATA_CACHE_TIMEOUT : {DEFAULT_DATA_CACHE_TIMEOUT},
     TWELVEDATA_API_KEY : {"demo", "live"}]

\* DataProvider.__init__ and AdvancedAnalysis.__init__
Init ==
    /\ now = 0
    /\ ticks = 0
    /\ calls = 0
    /\ cache = <<>>
    /\ cache_timeout = CACHE_TIMEOUT
    /\ data_sources = <<"mt5", "twelvedata">>
    /\ ta_available \in BOOLEAN
    /\ mt5_available \in BOOLEAN
    /\ config \in TradingConfigs
    /\ probed = <<>>
    /\ main_frame = MainStart
    /\ risk_manager = RiskManagerInit(Rat(DEFAULT_INITIAL_BALANCE, 1))
    /\ updates = 0
    /\ hour = 0
    /\ sessions = SessionManagerInit
    /\ refreshed = NEVER
    /\ deepseek = NoProvider
    /\ twelvedata_api_key = config.TWELVEDATA_API_KEY
    /\ hash_salt \in 0..MaxSalt
    /\ \E resp \in [Sources -> Responses] :
          source_status = test_all_sources(mt5_available, twelvedata_api_key, resp)
    /\ signals_history = <<>>
    /\ last = NoCall
    /\ fetched = <<>>
    /\ np_random = 0
    /\ inflight = [t \in Threads |-> NoFlight]
    /\ writers = <<>>
    /\ objects = <<>>
    /\ cache_ref = <<>>
    /\ held = {}

DefaultEnv == CHOOSE e \in Envs : TRUE

\* the environments of a call, cut down to the choices the call can read: a
\* call served from the cache reads nothing, an unhealthy source is not asked,
\* the indicator engine runs only when it is installed, and the generator
\* runs only when no healthy source gives a series
EnvFor(symbol, period, interval) ==
    LET key == CacheKey(symbol, period, interval)
        ws  == Range(working_sources)
    IN  IF key \in DOMAIN cache /\ IsFresh(cache[key].cached_time) THEN {DefaultEnv}
        ELSE {e \in Envs :
                /\ ~ta_available => e.ta = DefaultEnv.ta
                /\ \A s \in Sources \ ws : e.resp[s] = DefaultEnv.resp[s]
                /\ (\E s \in ws : Succeeded(CallAdapter(s, symbol, e.resp[s])))
                      => e.gen_ok = DefaultEnv.gen_ok}

\* time passes, by one of the given numbers of seconds
Advance(steps) ==
    /\ ticks < MaxTicks
    /\ \E d \in steps : now' = now + d
    /\ ticks' = ticks + 1
    /\ UNCHANGED <<calls, cache, cache_timeout, data_sources, source_status,
                   ta_available, mt5_available, twelvedata_api_key, hash_salt,
                   signals_history, last, fetched,
                   np_random, inflight, writers,
                   objects, cache_ref, held, config,
                   probed, beside>>

\* just short of the cache timeout, the timeout, or a whole day
Tick == Advance({CACHE_TIMEOUT - 1, CACHE_TIMEOUT, SECONDS_PER_DAY})

\* the record left in `last` by a call of get_symbol_data: the call's time, key
\* and environment, what it returned and invoked, and the latest fetch of the
\* key before the call (prior)
CallRecord(key, env, r) ==
    [op |-> "get_symbol_data", key |-> key, t |-> now, env |-> env,
     ret |-> r.ret, hit |-> r.hit, cached_time |-> r.cached_time, invoked |-> r.invoked,
     prior |-> IF key \in DOMAIN fetched
               THEN [known |-> TRUE, t |-> fetched[key].t, data |-> fetched[key].data]
               ELSE [known |-> FALSE, t |-> 0, data |-> None]]

\* `fetched` after a call r of get_symbol_data on key
NoteFetch(f, key, r) ==
    IF ~r.hit /\ ~IsNone(r.ret) THEN (key :> [t |-> now, data |-> r.ret]) @@ f ELSE f

\* a direct call of DataProvider.get_symbol_data, on a key the analysis uses
GetSymbolData ==
    /\ calls < MaxCalls
    /\ \E symbol \in Symbols, pi \in PeriodIntervals :
         \E env \in EnvFor(symbol, pi[1], pi[2]) :
            \E r \in {get_symbol_data(cache, symbol, pi[1], pi[2], env)},
               key \in {CacheKey(symbol, pi[1], pi[2])} :
                /\ cache' = r.cache
                /\ last' = CallRecord(key, env, r)
                /\ fetched' = NoteFetch(fetched, key, r)
                /\ np_random' = StreamAfterCall(np_random, symbol, r)
                /\ source_status' = source_status_after(source_status, r.invoked)
    /\ calls' = calls + 1
    /\ UNCHANGED <<now, ticks, cache_timeout, data_sources, ta_available,
                   mt5_available, twelvedata_api_key, hash_salt, signals_history,
                   inflight, writers,
                   objects, cache_ref, held, config,
                   probed, beside>>

\* a clear that keeps the per-symbol current-price entries
series_cleared(c) ==
    IF \E key \in DOMAIN c : Len(key) = 2
    THEN [key \in {k \in DOMAIN c : Len(k) = 2} |-> c[key]]
    ELSE <<>>
\* dict.clear()
cleared(c) == <<>>

\* DataProvider.clear_cache, as one of at most limit handler calls
ClearCacheWithin(limit) ==
    /\ calls < limit
    /\ cache' = cleared(cache)
    /\ fetched' = <<>>
    /\ last' = [op |-> "clear_cache", dropped |-> DOMAIN cache]
    /\ calls' = calls + 1
    /\ UNCHANGED <<now, ticks, cache_timeout, data_sources, source_status,
                   ta_available, mt5_available, twelvedata_api_key, hash_salt,
                   signals_history,
                   np_random, inflight, writers,
                   objects, cache_ref, held, config,
                   probed, beside>>

\* DataProvider.clear_cache
ClearCache == ClearCacheWithin(MaxCalls)

Next == Tick \/ GetSymbolData \/ ClearCache

Spec == Init /\ [][Next]_vars

\* ------------------------------------------------------- advanced analysis
\* Series.rolling(w).mean().iloc[-1]: NaN until w values are there
RollingMeanLast(s, w) == IF Len(s) < w THEN NaN ELSE Rat(SumSeq(LastN(s, w)), w)

MinOf(s) == CHOOSE x \in Range(s) : \A y \in Range(s) : x <= y
MaxOf(s) == CHOOSE x \in Range(s) : \A y \in Range(s) : x >= y

\* _calculate_rsi(prices).iloc[-1]: 100 - 100 / (1 + gain / loss) over the last
\* RSI_PERIOD differences, the difference of the first price taken as 0
calculate_rsi(prices) ==
    LET n     == Len(prices)
        delta == [i \in 1..n |-> IF i = 1 THEN 0 ELSE prices[i] - prices[i - 1]]
        gains == Strict([i \in 1..n |-> IF delta[i] > 0 THEN delta[i] ELSE 0])
        losss == Strict([i \in 1..n |-> IF delta[i] < 0 THEN 0 - delta[i] ELSE 0])
    IN  IF n < RSI_PERIOD THEN NaN
        ELSE LET gain == SumSeq(LastN(gains, RSI_PERIOD))
                 loss == SumSeq(LastN(losss, RSI_PERIOD))
             IN  Rat(100 * gain, gain + loss)

\* data['Close'].pct_change().std() * np.sqrt(252): the sample deviation of the
\* relative changes is a number once there are two changes, NaN before.  Only
\* whether it is a number is kept, not its magnitude.
annual_volatility(closes) == [defined |-> Len(closes) >= 3]

\* _calculate_support_resistance
calculate_support_resistance(data) ==
    IF Len(data.rows) < SR_WINDOW
    THEN [support    |-> MinOf(Col(data.rows, "Low")),
          resistance |-> MaxOf(Col(data.rows, "High"))]
    ELSE [support    |-> MinOf(LastN(Col(data.rows, "Low"), SR_WINDOW)),
          resistance |-> MaxOf(LastN(Col(data.rows, "High"), SR_WINDOW))]

\* a trend whose short-term part is up from price >= MA20 on
determine_trend_from_equal(price, ma20, ma50, ma200) ==
    LET short_trend == IF ~Lt(Rat(price, 1), ma20) /\ ~IsNaN(ma20) THEN "up" ELSE "down"
        long_trend  == IF Gt(ma20, ma50) /\ Gt(ma50, ma200) THEN "up"
                       ELSE IF Lt(ma20, ma50) /\ Lt(ma50, ma200) THEN "down"
                       ELSE "sideways"
        strength    == IF short_trend = long_trend THEN 85
                       ELSE IF long_trend = "sideways" THEN 50
                       ELSE 30
    IN  [trend |-> <<short_trend, long_trend>>, trend_strength |-> strength]

\* _determine_trend
determine_trend(price, ma20, ma50, ma200) ==
    LET short_trend == IF Gt(Rat(price, 1), ma20) THEN "up" ELSE "down"
        long_trend  == IF Gt(ma20, ma50) /\ Gt(ma50, ma200) THEN "up"
                       ELSE IF Lt(ma20, ma50) /\ Lt(ma50, ma200) THEN "down"
                       ELSE "sideways"
        strength    == IF short_trend = long_trend THEN 85
                       ELSE IF long_trend = "sideways" THEN 50
                       ELSE 30
    IN  [trend |-> <<short_trend, long_trend>>, trend_strength |-> strength]

\* abs(price - level) / price < 0.01, in float arithmetic
NearLevel(price, level) ==
    IF price > 0 THEN 100 * Abs(price - level) < price
    ELSE IF price = 0 THEN FALSE
    ELSE TRUE

Vote(signal, confidence) == [signal |-> signal, confidence |-> confidence]
CountOf(votes, signal) == Cardinality({i \in DOMAIN votes : votes[i].signal = signal})
\* the highest of the confidences of the votes for signal
HighestOf(votes, signal) ==
    LET sel == SelectSeq(votes, LAMBDA v : v.signal = signal)
    IN  Rat(MaxOf([i \in DOMAIN sel |-> sel[i].confidence]), 1)
\* np.mean of the confidences of the votes for signal
MeanOf(votes, signal) ==
    LET sel == SelectSeq(votes, LAMBDA v : v.signal = signal)
    IN  Rat(SumSeq([i \in DOMAIN sel |-> sel[i].confidence]), Len(sel))
\* the confidence of the first vote in place of the mean
FirstOfAll(votes) == Rat(votes[1].confidence, 1)
\* np.mean(confidences)
MeanAll(votes) == Rat(SumSeq([i \in DOMAIN votes |-> votes[i].confidence]), Len(votes))
\* min(95, confidence)
CapConfidence(confidence) ==
    IF Lt(confidence, Rat(MAX_CONFIDENCE, 1)) THEN confidence ELSE Rat(MAX_CONFIDENCE, 1)

\* lines 120-128: the vote of the moving averages
ma_signal(price, ma20, ma50) ==
    IF Gt(Rat(price, 1), ma20) /\ Gt(ma20, ma50) THEN Vote("buy", 70)
    ELSE IF Lt(Rat(price, 1), ma20) /\ Lt(ma20, ma50) THEN Vote("sell", 70)
    ELSE Vote("hold", 40)

\* an RSI vote that counts the thresholds 30 and 70 as signals
rsi_signal_inclusive(rsi) ==
    IF ~IsNaN(rsi) /\ ~Gt(rsi, Rat(30, 1)) THEN Vote("buy", 75)
    ELSE IF ~IsNaN(rsi) /\ ~Lt(rsi, Rat(70, 1)) THEN Vote("sell", 75)
    ELSE Vote("hold", 50)

\* lines 131-139: the vote of the RSI
rsi_signal(rsi) ==
    IF Lt(rsi, Rat(30, 1)) THEN Vote("buy", 75)
    ELSE IF Gt(rsi, Rat(70, 1)) THEN Vote("sell", 75)
    ELSE Vote("hold", 50)

\* level votes with the resistance test in front of the support test
sr_signals_resistance_first(price, support, resistance) ==
    IF NearLevel(price, resistance) THEN <<Vote("sell", 80)>>
    ELSE IF NearLevel(price, support) THEN <<Vote("buy", 80)>>
    ELSE <<>>

\* lines 142-150: the votes of the support and resistance levels, none or one
sr_signals(price, support, resistance) ==
    IF NearLevel(price, support) THEN <<Vote("buy", 80)>>
    ELSE IF NearLevel(price, resistance) THEN <<Vote("sell", 80)>>
    ELSE <<>>

\* signals and confidences as line 152 finds them, in the order of casting
cast_votes(price, ma20, ma50, rsi, support, resistance) ==
    <<ma_signal(price, ma20, ma50), rsi_signal(rsi)>>
        \o sr_signals(price, support, resistance)

\* a decision whose confidence is the total of the agreeing votes, uncapped
decision_by_total(votes) ==
    LET buy_signals  == CountOf(votes, "buy")
        sell_signals == CountOf(votes, "sell")
        total(sel)   == Rat(SumSeq([i \in DOMAIN sel |-> sel[i].confidence]), 1)
    IN  IF buy_signals > sell_signals
        THEN [signal |-> "buy",
              confidence |-> total(SelectSeq(votes, LAMBDA v : v.signal = "buy"))]
        ELSE IF sell_signals > buy_signals
        THEN [signal |-> "sell",
              confidence |-> total(SelectSeq(votes, LAMBDA v : v.signal = "sell"))]
        ELSE [signal |-> "wait", confidence |-> total(votes)]

\* a decision whose confidence is the mean of every cast vote, whatever it is for
decision_of_all_votes(votes) ==
    LET buy_signals  == CountOf(votes, "buy")
        sell_signals == CountOf(votes, "sell")
    IN  [signal |-> IF buy_signals > sell_signals THEN "buy"
                    ELSE IF sell_signals > buy_signals THEN "sell" ELSE "wait",
         confidence |-> CapConfidence(MeanAll(votes))]

\* lines 153-166: the decision made of the cast votes
final_decision(votes) ==
    LET buy_signals  == CountOf(votes, "buy")
        sell_signals == CountOf(votes, "sell")
    IN  IF buy_signals > sell_signals
        THEN [signal |-> "buy", confidence |-> CapConfidence(MeanOf(votes, "buy"))]
        ELSE IF sell_signals > buy_signals
        THEN [signal |-> "sell", confidence |-> CapConfidence(MeanOf(votes, "sell"))]
        ELSE [signal |-> "wait", confidence |-> CapConfidence(MeanAll(votes))]

\* _generate_signal
generate_signal(price, ma20, ma50, rsi, support, resistance) ==
    final_decision(cast_votes(price, ma20, ma50, rsi, support, resistance))

ErrorResult(symbol, why) == [kind |-> "error", symbol |-> symbol, error |-> why]

\* a long average taken over the candles there are when they are too few
long_average_of_all(closes, ma50) ==
    IF Len(closes) >= MA_LONG THEN RollingMeanLast(closes, MA_LONG)
    ELSE Rat(SumSeq(closes), Len(closes))
\* line 28: rolling(200).mean().iloc[-1] if len(data) >= 200 else ma50
long_average(closes, ma50) ==
    IF Len(closes) >= MA_LONG THEN RollingMeanLast(closes, MA_LONG) ELSE ma50

\* lines 23-60 of analyze_symbol: the analysis of a series, or kind "raise"
\* where the Python raises (a column the code reads is missing)
analysis_of(symbol, data) ==
    IF ~({"Close", "Low", "High"} \subseteq data.cols)
    THEN [kind |-> "raise", symbol |-> symbol, error |-> "KeyError"]
    ELSE LET closes == Col(data.rows, "Close")
             current_price == closes[Len(closes)]
             ma20  == RollingMeanLast(closes, MA_SHORT)
             ma50  == RollingMeanLast(closes, MA_MID)
             ma200 == long_average(closes, ma50)
             rsi   == IF "RSI" \notin data.cols THEN calculate_rsi(closes) ELSE data.RSI
             sr    == calculate_support_resistance(data)
             tr    == determine_trend(current_price, ma20, ma50, ma200)
             sg    == generate_signal(current_price, ma20, ma50, rsi,
                                      sr.support, sr.resistance)
         IN  [kind |-> "analysis", symbol |-> symbol, current_price |-> current_price,
              trend |-> tr.trend, trend_strength |-> tr.trend_strength,
              signal |-> sg.signal, confidence |-> sg.confidence, rsi |-> rsi,
              ma20 |-> ma20, ma50 |-> ma50, ma200 |-> ma200,
              support |-> sr.support, resistance |-> sr.resistance,
              volatility |-> annual_volatility(closes), timestamp |-> now]

\* the admission test of line 63 with >= in place of >
RecordsFrom60(confidence) == ~Lt(confidence, Rat(HISTORY_MIN_CONFIDENCE, 1))
\* if confidence > 60
ShouldRecord(confidence) == Gt(confidence, Rat(HISTORY_MIN_CONFIDENCE, 1))

\* a history that keeps the latest entry only
RecordLatest(h, analysis) == <<analysis>>
\* self.signals_history.append(analysis)
RecordSignal(h, analysis) == Append(h, analysis)

\* a handler that records its error results too
analyze_fetched_recording_errors(h, symbol, r) ==
    IF IsNone(r.ret) \/ IsEmpty(r.ret)
    THEN [result |-> ErrorResult(symbol, "no data"), cache |-> r.cache,
          history |-> Append(h, ErrorResult(symbol, "no data")), fetch |-> r]
    ELSE [result |-> analysis_of(symbol, r.ret), cache |-> r.cache,
          history |-> h, fetch |-> r]

\* analyze_symbol past line 18, r being the call of the provider made there
analyze_fetched(h, symbol, r) ==
    IF IsNone(r.ret) \/ IsEmpty(r.ret)
    THEN [result |-> ErrorResult(symbol, "no data"), cache |-> r.cache,
          history |-> h, fetch |-> r]
    ELSE LET analysis == analysis_of(symbol, r.ret)
         IN  IF analysis.kind = "raise"
             THEN [result |-> ErrorResult(symbol, analysis.error), cache |-> r.cache,
                   history |-> h, fetch |-> r]
             ELSE [result |-> analysis, cache |-> r.cache,
                   history |-> IF ShouldRecord(analysis.confidence)
                               THEN RecordSignal(h, analysis) ELSE h,
                   fetch |-> r]

\* analyze_symbol, c being the provider's cache and h signals_history at the call
analyze_symbol(c, h, symbol, env) ==
    analyze_fetched(h, symbol, get_symbol_data(c, symbol, "3mo", "4h", env))

\* '{x:.0f}': the nearest integer, ties to even
Round0(x) ==
    IF IsNaN(x) THEN NaN
    ELSE LET q == x.n \div x.d
             r == x.n % x.d
         IN  Rat(IF 2 * r < x.d THEN q
                 ELSE IF 2 * r > x.d THEN q + 1
                 ELSE IF q % 2 = 0 THEN q ELSE q + 1, 1)
\* '{x:.1f}': the nearest tenth, ties to even
Round1(x) == IF IsNaN(x) THEN NaN ELSE Rat(Round0(Rat(10 * x.n, x.d)).n, 10)

\* _get_trading_recommendations
get_trading_recommendations(analysis) ==
    IF analysis.signal = "buy" /\ Gt(analysis.confidence, Rat(70, 1)) THEN "strong_buy"
    ELSE IF analysis.signal = "sell" /\ Gt(analysis.confidence, Rat(70, 1)) THEN "strong_sell"
    ELSE "wait"

\* the text get_detailed_analysis makes of an analyze_symbol result
DetailedText(analysis) ==
    IF analysis.kind = "error"
    THEN [kind |-> "text", error |-> TRUE, symbol |-> analysis.symbol]
    ELSE [kind |-> "text", error |-> FALSE, symbol |-> analysis.symbol,
          signal |-> analysis.signal, confidence |-> Round0(analysis.confidence),
          trend |-> analysis.trend, trend_strength |-> analysis.trend_strength,
          current_price |-> analysis.current_price, rsi |-> Round1(analysis.rsi),
          rsi_label |-> IF Lt(analysis.rsi, Rat(30, 1)) THEN "overbought"
                        ELSE IF Gt(analysis.rsi, Rat(70, 1)) THEN "oversold"
                        ELSE "neutral",
          support |-> analysis.support, resistance |-> analysis.resistance,
          recommendations |-> get_trading_recommendations(analysis)]

SIGNAL_SYMBOLS ==
    <<"EURUSD", "GBPUSD", "USDJPY", "USDCHF", "USDCAD", "AUDUSD", "XAUUSD", "USOIL">>
MARKET_SYMBOLS == <<"EURUSD", "GBPUSD", "USDJPY", "XAUUSD", "USOIL">>

\* the state of a batch handler's loop after the analysis a of symbol
AfterAnalysis(st, symbol, a) ==
    [cache   |-> a.cache,
     history |-> a.history,
     fetched |-> NoteFetch(st.fetched, CacheKey(symbol, "3mo", "4h"), a.fetch),
     np_random |-> StreamAfterCall(st.np_random, symbol, a.fetch),
     results |-> Append(st.results, a.result)]

RECURSIVE AnalyzeEach(_, _, _)
\* the loop of a batch handler over its watch list, from st =
\* [cache, history, fetched, results]
AnalyzeEach(symbols, st, env) ==
    IF symbols = <<>> THEN st
    ELSE AnalyzeEach(Tail(symbols),
             AfterAnalysis(st, Head(symbols),
                 analyze_symbol(st.cache, st.history, Head(symbols), env)),
             env)

\* the entry of the signals dict made of an analysis
SignalEntry(analysis) ==
    [symbol |-> analysis.symbol, signal |-> analysis.signal,
     confidence |-> analysis.confidence, current_price |-> analysis.current_price,
     rsi |-> analysis.rsi, trend |-> analysis.trend, timestamp |-> analysis.timestamp]

RECURSIVE InsertByConfidence(_, _)
\* x put behind every entry whose confidence is not lower than its own
InsertByConfidence(sorted, x) ==
    IF sorted = <<>> THEN <<x>>
    ELSE IF Lt(Head(sorted).confidence, x.confidence) THEN <<x>> \o sorted
    ELSE <<Head(sorted)>> \o InsertByConfidence(Tail(sorted), x)
\* a sort that leaves the entries in the order they were made
KeepOrder(done, todo) == done \o todo
RECURSIVE SortByConfidence(_, _)
\* sorted(..., key = confidence, reverse = True): stable, highest first
SortByConfidence(done, todo) ==
    IF todo = <<>> THEN done
    ELSE SortByConfidence(InsertByConfidence(done, Head(todo)), Tail(todo))

\* the dict get_trading_signals returns, as the sequence of its items
TradingSignals(results) ==
    LET ok == SelectSeq(results, LAMBDA a : a.kind # "error")
    IN  SortByConfidence(<<>>, [i \in DOMAIN ok |-> SignalEntry(ok[i])])

\* the per-symbol lines of the text get_market_analysis returns
MarketLines(results) ==
    LET ok == SelectSeq(results, LAMBDA a : a.kind # "error")
    IN  [i \in DOMAIN ok |->
            [symbol |-> ok[i].symbol, signal |-> ok[i].signal,
             confidence |-> Round0(ok[i].confidence),
             current_price |-> ok[i].current_price, rsi |-> Round1(ok[i].rsi)]]

\* history[-limit:]
PyTail(h, limit) ==
    IF limit = 0 THEN h
    ELSE IF limit > 0 THEN LastN(h, limit)
    ELSE SubSeq(h, Min2(0 - limit, Len(h)) + 1, Len(h))

\* get_signal_history; symbol "" stands for None
get_signal_history(h, symbol, limit) ==
    LET history == IF symbol # "" THEN SelectSeq(h, LAMBDA x : x.symbol = symbol) ELSE h
    IN  IF history # <<>> THEN PyTail(history, limit) ELSE <<>>

\* the environments the analysis handlers are run in: both upstreams answer
\* alike, with a failure or a full frame; the generator fails only when asked
Worlds ==
    {e \in Envs : /\ e.resp["mt5"] = e.resp["twelvedata"]
                  /\ e.resp["mt5"].kind \in {"error", "frame"}
                  /\ e.resp["mt5"].kind = "frame" => e.gen_ok
                  /\ ~e.gen_ok => e.ta = DefaultEnv.ta
                  /\ ~ta_available => e.ta = DefaultEnv.ta}
HistoryLimits == {0, 1}
HistoryFilters == {"", "EURUSD"}

ProvidedKind(data) ==
    IF data.kind = "None" THEN "None"
    ELSE IF Len(data.rows) = 0 \/ data.cols = {} THEN "empty"
    ELSE "series"

\* the state change shared by the single-symbol handlers
AnalyzeStep(op, symbol, env) ==
    \E a \in {analyze_symbol(cache, signals_history, symbol, env)} :
        /\ cache' = a.cache
        /\ signals_history' = a.history
        /\ fetched' = NoteFetch(fetched, CacheKey(symbol, "3mo", "4h"), a.fetch)
        /\ np_random' = StreamAfterCall(np_random, symbol, a.fetch)
        /\ last' = [op |-> op, symbol |-> symbol, t |-> now,
                    provided |-> ProvidedKind(a.fetch.ret),
                    result |-> a.result, ret |-> IF op = "analyze_symbol" THEN a.result
                                                 ELSE DetailedText(a.result),
                    history_before |-> signals_history]

\* AdvancedAnalysis.analyze_symbol
AnalyzeSymbol ==
    /\ calls < MaxCalls
    /\ \E symbol \in Symbols, env \in Worlds : AnalyzeStep("analyze_symbol", symbol, env)
    /\ calls' = calls + 1
    /\ UNCHANGED <<now, ticks, cache_timeout, data_sources, source_status,
                   ta_available, mt5_available, twelvedata_api_key, hash_salt,
                   inflight, writers,
                   objects, cache_ref, held, config,
                   probed, beside>>

\* AdvancedAnalysis.get_detailed_analysis
GetDetailedAnalysis ==
    /\ calls < MaxCalls
    /\ \E symbol \in Symbols, env \in Worlds :
          AnalyzeStep("get_detailed_analysis", symbol, env)
    /\ calls' = calls + 1
    /\ UNCHANGED <<now, ticks, cache_timeout, data_sources, source_status,
                   ta_available, mt5_available, twelvedata_api_key, hash_salt,
                   inflight, writers,
                   objects, cache_ref, held, config,
                   probed, beside>>

\* the state change shared by the batch handlers
BatchStep(op, symbols, env) ==
    \E st \in {AnalyzeEach(symbols, [cache |-> cache, history |-> signals_history,
                                      fetched |-> fetched, np_random |-> np_random,
                                      results |-> <<>>], env)} :
        /\ cache' = st.cache
        /\ signals_history' = st.history
        /\ fetched' = st.fetched
        /\ np_random' = st.np_random
        /\ last' = [op |-> op, t |-> now, results |-> st.results,
                    ret |-> IF op = "get_trading_signals"
                            THEN TradingSignals(st.results) ELSE MarketLines(st.results),
                    history_before |-> signals_history]

\* AdvancedAnalysis.get_trading_signals
GetTradingSignals ==
    /\ calls < MaxCalls
    /\ \E env \in Worlds : BatchStep("get_trading_signals", SIGNAL_SYMBOLS, env)
    /\ calls' = calls + 1
    /\ UNCHANGED <<now, ticks, cache_timeout, data_sources, source_status,
                   ta_available, mt5_available, twelvedata_api_key, hash_salt,
                   inflight, writers,
                   objects, cache_ref, held, config,
                   probed, beside>>

\* AdvancedAnalysis.get_market_analysis
GetMarketAnalysis ==
    /\ calls < MaxCalls
    /\ \E env \in Worlds : BatchStep("get_market_analysis", MARKET_SYMBOLS, env)
    /\ calls' = calls + 1
    /\ UNCHANGED <<now, ticks, cache_timeout, data_sources, source_status,
                   ta_available, mt5_available, twelvedata_api_key, hash_salt,
                   inflight, writers,
                   objects, cache_ref, held, config,
                   probed, beside>>

\* AdvancedAnalysis.get_signal_history
GetSignalHistory ==
    /\ calls < MaxCalls
    /\ \E symbol \in HistoryFilters, limit \in HistoryLimits :
          last' = [op |-> "get_signal_history", symbol |-> symbol, limit |-> limit,
                   t |-> now, ret |-> get_signal_history(signals_history, symbol, limit),
                   history_before |-> signals_history]
    /\ calls' = calls + 1
    /\ UNCHANGED <<now, ticks, cache, cache_timeout, data_sources, source_status,
                   ta_available, mt5_available, twelvedata_api_key, hash_salt,
                   signals_history, fetched,
                   np_random, inflight, writers,
                   objects, cache_ref, held, config,
                   probed, beside>>

\* the cache timeout passes
Expire == Advance({CACHE_TIMEOUT})

NextAnalysis ==
    \/ Expire
    \/ AnalyzeSymbol
    \/ GetDetailedAnalysis
    \/ GetTradingSignals
    \/ GetMarketAnalysis
    \/ GetSignalHistory
    \/ ClearCache

SpecAnalysis == Init /\ [][NextAnalysis]_vars

\* ------------------------------------------ the signal rules on their own
\* the arguments _determine_trend and _generate_signal are applied to, in
\* tenths: the spec's three scenarios and the values next to every threshold
SignalPrices == {990, 1000, 1100}
SignalMA20s == {NaN, Rat(1000, 1), Rat(1010, 1), Rat(1050, 1)}
SignalMA50s == {NaN, Rat(1000, 1), Rat(1020, 1)}
SignalMA200s == {NaN, Rat(990, 1), Rat(1000, 1), Rat(1020, 1), Rat(1030, 1)}
SignalRSIs == {NaN, Rat(25, 1), Rat(30, 1), Rat(50, 1), Rat(70, 1), Rat(72, 1)}
SignalSupports == {900, 985, 1095}
SignalResistances == {995, 1105, 1300}

\* AdvancedAnalysis._determine_trend
DetermineTrend ==
    /\ calls < MaxApplications
    /\ calls' = calls + 1
    /\ \E price \in SignalPrices, ma20 \in SignalMA20s, ma50 \in SignalMA50s,
          ma200 \in SignalMA200s :
          last' = [op |-> "_determine_trend", price |-> price, ma20 |-> ma20,
                   ma50 |-> ma50, ma200 |-> ma200,
                   ret |-> determine_trend(price, ma20, ma50, ma200)]
    /\ UNCHANGED <<now, ticks, cache, cache_timeout, data_sources, source_status,
                   ta_available, mt5_available, twelvedata_api_key, hash_salt,
                   signals_history, fetched,
                   np_random, inflight, writers,
                   objects, cache_ref, held, config,
                   probed, beside>>

\* AdvancedAnalysis._generate_signal
GenerateSignal ==
    /\ calls < MaxApplications
    /\ calls' = calls + 1
    /\ \E price \in SignalPrices, ma20 \in SignalMA20s, ma50 \in SignalMA50s,
          rsi \in SignalRSIs, support \in SignalSupports,
          resistance \in SignalResistances :
          last' = [op |-> "_generate_signal", price |-> price, ma20 |-> ma20,
                   ma50 |-> ma50, rsi |-> rsi, support |-> support,
                   resistance |-> resistance,
                   votes |-> cast_votes(price, ma20, ma50, rsi, support, resistance),
                   ret |-> generate_signal(price, ma20, ma50, rsi, support,
                                           resistance)]
    /\ UNCHANGED <<now, ticks, cache, cache_timeout, data_sources, source_status,
                   ta_available, mt5_available, twelvedata_api_key, hash_salt,
                   signals_history, fetched,
                   np_random, inflight, writers,
                   objects, cache_ref, held, config,
                   probed, beside>>

NextSignal == DetermineTrend \/ GenerateSignal

SpecSignal == Init /\ [][NextSignal]_vars

\* ------------------------------------ two threads in get_symbol_data
\* the call both threads make: the warm-up thread's key
SharedCall == [symbol |-> "EURUSD", period |-> "1d", interval |-> "1h"]
SharedKey == CacheKey(SharedCall.symbol, SharedCall.period, SharedCall.interval)

\* a cache whose entry under key holds new data beside the time of the entry
\* that was there
write_data_only(c, key, stamp, data) ==
    IF key \in DOMAIN c
    THEN (key :> [cached_time |-> c[key].cached_time, data |-> data]) @@ c
    ELSE (key :> [cached_time |-> stamp, data |-> data]) @@ c
\* self._cache[cache_key] = (stamp, data): one store of a whole tuple
write_entry(c, key, stamp, data) ==
    (key :> [cached_time |-> stamp, data |-> data]) @@ c

\* thread t moves to the given position, with the given local values
Move(t, pc, data, stamp, ret) ==
    inflight' = [inflight EXCEPT ![t] = [pc |-> pc, data |-> data,
                                         stamp |-> stamp, ret |-> ret]]

\* line 190: if cache_key in self._cache
Lookup(t) ==
    /\ inflight[t].pc = "idle"
    /\ Move(t, IF SharedKey \in DOMAIN cache THEN "read" ELSE "fetch", None, 0, None)
    /\ UNCHANGED <<now, ticks, calls, cache, cache_timeout, data_sources,
                   source_status, ta_available, mt5_available, twelvedata_api_key,
                   hash_salt, signals_history, last, fetched, np_random, writers,
                   objects, cache_ref, held, config,
                   probed, beside>>

\* lines 191-194: the entry is read and returned if it is fresh
ReadEntry(t) ==
    /\ inflight[t].pc = "read"
    /\ IF IsFresh(cache[SharedKey].cached_time)
       THEN Move(t, "done", None, 0, cache[SharedKey].data)
       ELSE Move(t, "fetch", None, 0, None)
    /\ UNCHANGED <<now, ticks, calls, cache, cache_timeout, data_sources,
                   source_status, ta_available, mt5_available, twelvedata_api_key,
                   hash_salt, signals_history, last, fetched, np_random, writers,
                   objects, cache_ref, held, config,
                   probed, beside>>

\* lines 197-236 short of the stores: the sources are tried, then the
\* generator; a series to be cached takes the thread on to the store
Fetch(t) ==
    /\ inflight[t].pc = "fetch"
    /\ \E env \in Worlds :
         \E r \in {get_symbol_data(<<>>, SharedCall.symbol, SharedCall.period,
                                   SharedCall.interval, env)} :
            /\ IF SharedKey \in DOMAIN r.cache
               THEN Move(t, "stamp", r.ret, 0, None)
               ELSE Move(t, "done", None, 0, r.ret)
            /\ np_random' = StreamAfterCall(np_random, SharedCall.symbol, r)
    /\ UNCHANGED <<now, ticks, calls, cache, cache_timeout, data_sources,
                   source_status, ta_available, mt5_available, twelvedata_api_key,
                   hash_salt, signals_history, last, fetched, writers,
                   objects, cache_ref, held, config,
                   probed, beside>>

\* lines 218 and 238, right-hand side: datetime.now() is read
Stamp(t) ==
    /\ inflight[t].pc = "stamp"
    /\ Move(t, "store", inflight[t].data, now, None)
    /\ UNCHANGED <<now, ticks, calls, cache, cache_timeout, data_sources,
                   source_status, ta_available, mt5_available, twelvedata_api_key,
                   hash_salt, signals_history, last, fetched, np_random, writers,
                   objects, cache_ref, held, config,
                   probed, beside>>

\* lines 218 and 238, the store, and the return that follows it
StoreEntry(t) ==
    /\ inflight[t].pc = "store"
    /\ cache' = write_entry(cache, SharedKey, inflight[t].stamp, inflight[t].data)
    /\ writers' = Append(writers, t)
    /\ Move(t, "done", inflight[t].data, inflight[t].stamp, inflight[t].data)
    /\ UNCHANGED <<now, ticks, calls, cache_timeout, data_sources, source_status,
                   ta_available, mt5_available, twelvedata_api_key, hash_salt,
                   signals_history, last, fetched, np_random,
                   objects, cache_ref, held, config,
                   probed, beside>>

\* a second passes, or the cache timeout
Elapse == Advance({1, CACHE_TIMEOUT})

NextConcurrent ==
    \/ Elapse
    \/ \E t \in Threads : Lookup(t)
    \/ \E t \in Threads : ReadEntry(t)
    \/ \E t \in Threads : Fetch(t)
    \/ \E t \in Threads : Stamp(t)
    \/ \E t \in Threads : StoreEntry(t)

SpecConcurrent == Init /\ [][NextConcurrent]_vars

\* ------------------------------------------ the synthetic generator on its own
\* what `last` keeps of the generator call before the present one
EarlierGeneration ==
    IF last.op = "_get_dynamic_default_data"
    THEN [known |-> TRUE, symbol |-> last.symbol, t |-> last.t, ret |-> last.ret]
    ELSE [known |-> FALSE, symbol |-> "", t |-> 0, ret |-> None]

\* DataProvider._get_dynamic_default_data
GenerateDefault ==
    /\ calls < MaxCalls
    /\ \E symbol \in Symbols, ok \in BOOLEAN :
         \E data \in {get_dynamic_default_data(symbol, hash_salt, now, ok)} :
            /\ last' = [op |-> "_get_dynamic_default_data", symbol |-> symbol,
                        t |-> now, ret |-> data, earlier |-> EarlierGeneration]
            /\ np_random' = IF ok THEN StreamAfter(symbol, hash_salt) ELSE np_random
    /\ calls' = calls + 1
    /\ UNCHANGED <<now, ticks, cache, cache_timeout, data_sources, source_status,
                   ta_available, mt5_available, twelvedata_api_key, hash_salt,
                   signals_history, fetched, inflight, writers,
                   objects, cache_ref, held, config,
                   probed, beside>>

NextSynthetic == Elapse \/ GenerateDefault

SpecSynthetic == Init /\ [][NextSynthetic]_vars

\* --------------------------------------------- prices and market summaries
\* a float price, and the None returned in its place
Price(value) == [kind |-> "float", value |-> value]
NoPrice == [kind |-> "None", value |-> 0]
\* float(data['Close'].iloc[-1])
LastClose(data) == Price(data.rows[Len(data.rows)].Close)

SUMMARY_SYMBOLS == <<"EURUSD", "GBPUSD", "USDJPY", "USDCHF", "USDCAD", "AUDUSD">>
\* f"{symbol}_current"
CurrentKey(symbol) == <<symbol, "current">>

\* get_current_price past line 582, r being the call of get_symbol_data made
\* there; a frame without Close raises inside the try and gives None
current_price_of(r) ==
    [price |-> IF Succeeded(r.ret) /\ "Close" \in r.ret.cols
               THEN LastClose(r.ret) ELSE NoPrice,
     cache |-> r.cache, fetch |-> r]

\* get_current_price, c being self._cache at the call
get_current_price(c, symbol, env) ==
    current_price_of(get_symbol_data(c, symbol, "5d", "15m", env))

\* the state of get_market_summary's loop after the price p of symbol
AfterPrice(st, symbol, p) ==
    [cache     |-> p.cache,
     fetched   |-> NoteFetch(st.fetched, CacheKey(symbol, "5d", "15m"), p.fetch),
     np_random |-> StreamAfterCall(st.np_random, symbol, p.fetch),
     source_status |-> source_status_after(st.source_status, p.fetch.invoked),
     invoked   |-> Append(st.invoked, p.fetch.invoked),
     summary   |-> IF p.price.kind = "None" THEN st.summary
                   ELSE Append(st.summary, [symbol |-> symbol, price |-> p.price])]

RECURSIVE SummaryEach(_, _, _)
\* the loop of get_market_summary, from st = [cache, fetched, np_random,
\* source_status, invoked, summary]
SummaryEach(symbols, st, env) ==
    IF symbols = <<>> THEN st
    ELSE SummaryEach(Tail(symbols),
             AfterPrice(st, Head(symbols),
                        get_current_price(st.cache, Head(symbols), env)),
             env)

\* lines 77-82 of get_fast_market_summary: a price stored under the symbol's
\* own key less than a minute ago (by the seconds field) is used as it is
HasFastPrice(c, symbol) ==
    /\ CurrentKey(symbol) \in DOMAIN c
    /\ TimedeltaSeconds(now - c[CurrentKey(symbol)].cached_time) < FAST_TIMEOUT

\* lines 85-94, r being the call of get_symbol_data made at line 87
AfterFastFetch(st, symbol, r) ==
    LET ok == Succeeded(r.ret) /\ "Close" \in r.ret.cols
    IN  [cache     |-> IF ok THEN write_entry(r.cache, CurrentKey(symbol), now,
                                              LastClose(r.ret))
                       ELSE r.cache,
         fetched   |-> NoteFetch(st.fetched, CacheKey(symbol, "1d", "15m"), r),
         np_random |-> StreamAfterCall(st.np_random, symbol, r),
         source_status |-> source_status_after(st.source_status, r.invoked),
         invoked   |-> Append(st.invoked, r.invoked),
         summary   |-> IF ok
                       THEN Append(st.summary,
                                   [symbol |-> symbol, price |-> LastClose(r.ret)])
                       ELSE st.summary]

RECURSIVE FastSummaryEach(_, _, _)
\* the loop of get_fast_market_summary
FastSummaryEach(symbols, st, env) ==
    IF symbols = <<>> THEN st
    ELSE FastSummaryEach(Tail(symbols),
             IF HasFastPrice(st.cache, Head(symbols))
             THEN [st EXCEPT !.summary =
                      Append(@, [symbol |-> Head(symbols),
                                 price |-> st.cache[CurrentKey(Head(symbols))].data])]
             ELSE AfterFastFetch(st, Head(symbols),
                      get_symbol_data(st.cache, Head(symbols), "1d", "15m", env)),
             env)

\* DataProvider.get_current_price
GetCurrentPrice ==
    /\ calls < MaxCalls
    /\ \E symbol \in Symbols, env \in Worlds :
         \E p \in {get_current_price(cache, symbol, env)} :
            /\ cache' = p.cache
            /\ fetched' = NoteFetch(fetched, CacheKey(symbol, "5d", "15m"), p.fetch)
            /\ np_random' = StreamAfterCall(np_random, symbol, p.fetch)
            /\ source_status' = source_status_after(source_status, p.fetch.invoked)
            /\ last' = [op |-> "get_current_price", symbol |-> symbol, t |-> now,
                        ret |-> p.price, invoked |-> <<p.fetch.invoked>>]
    /\ calls' = calls + 1
    /\ UNCHANGED <<now, ticks, cache_timeout, data_sources, ta_available,
                   mt5_available, twelvedata_api_key, hash_salt, signals_history,
                   inflight, writers,
                   objects, cache_ref, held, config,
                   probed, beside>>

\* the state a summary handler's loop starts from
SummaryStart ==
    [cache |-> cache, fetched |-> fetched, np_random |-> np_random,
     source_status |-> source_status, invoked |-> <<>>, summary |-> <<>>]

\* the state change of a summary handler whose loop ended in st
SummaryStep(op, st) ==
    /\ cache' = st.cache
    /\ fetched' = st.fetched
    /\ np_random' = st.np_random
    /\ source_status' = st.source_status
    /\ last' = [op |-> op, t |-> now, ret |-> st.summary, invoked |-> st.invoked]

\* DataProvider.get_market_summary
GetMarketSummary ==
    /\ calls < MaxCalls
    /\ \E env \in Worlds :
         \E st \in {SummaryEach(SUMMARY_SYMBOLS, SummaryStart, env)} :
            SummaryStep("get_market_summary", st)
    /\ calls' = calls + 1
    /\ UNCHANGED <<now, ticks, cache_timeout, data_sources, ta_available,
                   mt5_available, twelvedata_api_key, hash_salt, signals_history,
                   inflight, writers,
                   objects, cache_ref, held, config,
                   probed, beside>>

\* DataProvider.get_fast_market_summary
GetFastMarketSummary ==
    /\ calls < MaxCalls
    /\ \E env \in Worlds :
         \E st \in {FastSummaryEach(SUMMARY_SYMBOLS, SummaryStart, env)} :
            SummaryStep("get_fast_market_summary", st)
    /\ calls' = calls + 1
    /\ UNCHANGED <<now, ticks, cache_timeout, data_sources, ta_available,
                   mt5_available, twelvedata_api_key, hash_salt, signals_history,
                   inflight, writers,
                   objects, cache_ref, held, config,
                   probed, beside>>

\* a minute, or the cache timeout, passes
Wait == Advance({FAST_TIMEOUT, CACHE_TIMEOUT})

NextProvider ==
    \/ Wait
    \/ GetSymbolData
    \/ GetCurrentPrice
    \/ GetMarketSummary
    \/ GetFastMarketSummary
    \/ ClearCache

SpecProvider == Init /\ [][NextProvider]_vars

\* ------------------------------------------------- callers that keep a series
\* the column a caller adds in place to a series it was given
CALLER_COLUMN == "caller"
\* a DataFrame object: its contents and the cache key it was fetched for
Object(data, key) == [data |-> data, key |-> key]
\* handing out the object itself instead of a copy of it
same_object(objs, oid) == [objects |-> objs, oid |-> oid]
\* DataFrame.copy(): a new object with the contents of object oid
copy(objs, oid) == [objects |-> Append(objs, objs[oid]), oid |-> Len(objs) + 1]

\* the objects of a call r of get_symbol_data on key: a hit hands out a copy
\* of the cached object; a miss that caches stores a copy of the series and
\* hands out the series itself; a miss that does not cache hands out the series
ObjectsAfter(objs, refs, hs, c, key, r) ==
    IF r.hit
    THEN LET cp == copy(objs, refs[key])
         IN  [objects |-> cp.objects, cache_ref |-> refs, held |-> hs \cup {cp.oid}]
    ELSE IF IsNone(r.ret)
    THEN [objects |-> objs, cache_ref |-> refs, held |-> hs]
    ELSE LET made == Append(objs, Object(r.ret, key))
             data == Len(made)
         IN  IF r.cache # c
             THEN LET cp == copy(made, data)
                  IN  [objects |-> cp.objects, cache_ref |-> (key :> cp.oid) @@ refs,
                       held |-> hs \cup {data}]
             ELSE [objects |-> made, cache_ref |-> refs, held |-> hs \cup {data}]

\* a call of DataProvider.get_symbol_data whose caller keeps what it returns
KeepSymbolData ==
    /\ calls < MaxCalls
    /\ \E symbol \in Symbols, pi \in PeriodIntervals :
         \E env \in EnvFor(symbol, pi[1], pi[2]) :
            \E r \in {get_symbol_data(cache, symbol, pi[1], pi[2], env)},
               key \in {CacheKey(symbol, pi[1], pi[2])} :
              \E o \in {ObjectsAfter(objects, cache_ref, held, cache, key, r)} :
                /\ cache' = r.cache
                /\ last' = CallRecord(key, env, r)
                /\ fetched' = NoteFetch(fetched, key, r)
                /\ np_random' = StreamAfterCall(np_random, symbol, r)
                /\ source_status' = source_status_after(source_status, r.invoked)
                /\ objects' = o.objects
                /\ cache_ref' = o.cache_ref
                /\ held' = o.held
    /\ calls' = calls + 1
    /\ UNCHANGED <<now, ticks, cache_timeout, data_sources, ta_available,
                   mt5_available, twelvedata_api_key, hash_salt, signals_history,
                   inflight, writers, config,
                   probed, beside>>

\* a caller adds a column in place to a series it holds; whatever else refers
\* to the same object sees the column
MutateKept ==
    /\ \E oid \in held :
         /\ CALLER_COLUMN \notin objects[oid].data.cols
         /\ objects' = [objects EXCEPT ![oid].data.cols = @ \cup {CALLER_COLUMN}]
         /\ IF \E key \in DOMAIN cache_ref : cache_ref[key] = oid
            THEN cache' = [key \in DOMAIN cache |->
                             IF cache_ref[key] = oid
                             THEN [cache[key] EXCEPT !.data = objects'[oid].data]
                             ELSE cache[key]]
            ELSE cache' = cache
    /\ UNCHANGED <<now, ticks, calls, cache_timeout, data_sources, source_status,
                   ta_available, mt5_available, twelvedata_api_key, hash_salt,
                   signals_history, last, fetched, np_random, inflight, writers,
                   cache_ref, held, config,
                   probed, beside>>

NextAlias == Tick \/ KeepSymbolData \/ MutateKept

SpecAlias == Init /\ [][NextAlias]_vars

\* ------------------------------------------ clearing a cache that was filled
\* clear_cache after the handler calls that filled the cache and the history
ClearFilled == ClearCacheWithin(MaxCalls + 1)

NextClear == AnalyzeSymbol \/ GetFastMarketSummary \/ ClearFilled

SpecClear == Init /\ [][NextClear]_vars

\* ------------------------------------------- analyses of series of all kinds
\* the environments in which both upstreams answer alike with a frame, long
\* or short, moving or flat
SeriesWorlds ==
    {[resp |-> [src \in Sources |-> resp], ta |-> ta, gen_ok |-> TRUE] :
        resp \in {x \in Range(AllResponseList) : x.kind = "frame"},
        ta \in {t \in TaOutcomes : ~ta_available => t = DefaultEnv.ta}}

\* AdvancedAnalysis.analyze_symbol on what the upstreams of env give; the
\* record keeps what the provider invoked and how long the series was
AnalyzeSeries ==
    /\ calls < MaxCalls
    /\ \E symbol \in Symbols, env \in SeriesWorlds :
         \E a \in {analyze_symbol(cache, signals_history, symbol, env)} :
            /\ cache' = a.cache
            /\ signals_history' = a.history
            /\ fetched' = NoteFetch(fetched, CacheKey(symbol, "3mo", "4h"), a.fetch)
            /\ np_random' = StreamAfterCall(np_random, symbol, a.fetch)
            /\ last' = [op |-> "analyze_symbol", symbol |-> symbol, t |-> now,
                        provided |-> ProvidedKind(a.fetch.ret),
                        invoked |-> a.fetch.invoked, hit |-> a.fetch.hit,
                        candles |-> Len(a.fetch.ret.rows),
                        closes |-> IF "Close" \in a.fetch.ret.cols
                                   THEN Col(a.fetch.ret.rows, "Close") ELSE <<>>,
                        has_rsi |-> "RSI" \in a.fetch.ret.cols,
                        result |-> a.result, ret |-> a.result,
                        history_before |-> signals_history]
    /\ calls' = calls + 1
    /\ UNCHANGED <<now, ticks, cache_timeout, data_sources, source_status,
                   ta_available, mt5_available, twelvedata_api_key, hash_salt,
                   inflight, writers,
                   objects, cache_ref, held, config,
                   probed, beside>>

NextSeries == Expire \/ AnalyzeSeries

SpecSeries == Init /\ [][NextSeries]_vars

\* ------------------------------------------------------ the on-demand probe
\* self.source_status after a call of test_all_sources: the call returns its
\* results and assigns them to nothing
status_after_probe(status, results) == status

\* DataProvider.test_all_sources called on a constructed provider
TestAllSources ==
    /\ calls < MaxCalls
    /\ \E resp \in [Sources -> Responses] :
         \E results \in {test_all_sources(mt5_available, twelvedata_api_key, resp)} :
            /\ probed' = results
            /\ source_status' = status_after_probe(source_status, results)
            /\ last' = [op |-> "test_all_sources", t |-> now, ret |-> results]
    /\ calls' = calls + 1
    /\ UNCHANGED <<now, ticks, cache, cache_timeout, data_sources,
                   ta_available, mt5_available, twelvedata_api_key, hash_salt,
                   signals_history, fetched, np_random, inflight, writers,
                   objects, cache_ref, held, config, beside>>

NextProbe == TestAllSources \/ GetSymbolData

SpecProbe == Init /\ [][NextProbe]_vars

\* ------------------------------------- the generator run by two threads at once
\* The stream of numpy is one object of the process.  Each call of numpy on it
\* is atomic; a generation is line 260 (seed), line 263 (the returns, one
\* call), and the loop of lines 267-277 (four or five draws per candle).

\* everything but the threads' positions and the stream
generator_frame ==
    <<now, ticks, calls, cache, cache_timeout, data_sources, source_status,
      ta_available, mt5_available, twelvedata_api_key, hash_salt,
      signals_history, last, fetched, writers, objects, cache_ref, held,
      config, probed, beside>>

\* candle i of the loop, drawn from a stream that was in state s when the
\* loop began
CandleFromStream(price, s, i, t) ==
    LET k          == 4 * (i - 1)
        volatility == 2000 + SinMilli(i - 1, 50)
        zh         == Normal(RngAt(s, k + 1))
        zl         == Normal(RngAt(s, k + 2))
        zc         == Normal(RngAt(s, k + 3))
        u          == Uniform10(RngAt(s, k + 4))
        open_price == price
        high_raw   == ScaleBp(price, (Abs(zh) * volatility) \div 100)
        low_raw    == ScaleBp(price, 0 - (Abs(zl) * volatility) \div 100)
        close_price == ScaleBp(price, (zc * volatility) \div 200)
        high_price == Max2(Max2(open_price, close_price), high_raw)
        low_price  == Min2(Min2(open_price, close_price), low_raw)
        volume     == 800000 + 400 * SinMilli(i - 1, 20) + 30000 * u
    IN  Candle(t, open_price, high_price, low_price, close_price, volume, {})

\* lines 267-293: the candles of the given prices drawn from a stream in state
\* s, as the cleaned frame
CandlesFromStream(prices, s, t_now) ==
    clean_data(Frame(Strict([i \in 1..SyntheticPeriods |->
        CandleFromStream(prices[i], s, i,
                         t_now - (SyntheticPeriods - i) * SECONDS_PER_HOUR)]), OHLCV))

\* a thread in the generator: where it is, for which symbol, since when, with
\* which prices, and what it returned
Generation(pc, symbol, t, prices, ret) ==
    [pc |-> pc, symbol |-> symbol, t |-> t, prices |-> prices, ret |-> ret]

\* line 259: a thread whose fetch fell through to the generator enters it
EnterGenerator(th) ==
    /\ inflight[th].pc = "idle"
    /\ \E symbol \in Symbols :
          inflight' = [inflight EXCEPT ![th] = Generation("seed", symbol, now, <<>>, None)]
    /\ UNCHANGED <<generator_frame, np_random>>

\* line 260: np.random.seed(hash(symbol) % 10000)
SeedStream(th) ==
    /\ inflight[th].pc = "seed"
    /\ np_random' = np_seed(inflight[th].symbol, hash_salt)
    /\ inflight' = [inflight EXCEPT ![th].pc = "returns"]
    /\ UNCHANGED generator_frame

\* lines 263-264: the returns are drawn from the stream as it is now
DrawReturns(th) ==
    /\ inflight[th].pc = "returns"
    /\ inflight' = [inflight EXCEPT
                      ![th].pc = "candles",
                      ![th].prices = CumPrices(base_prices(inflight[th].symbol),
                                               np_random, 1)]
    /\ np_random' = RngAt(np_random, SyntheticPeriods)
    /\ UNCHANGED generator_frame

\* lines 266-293: the candles are drawn from the stream as it is now
DrawCandles(th) ==
    /\ inflight[th].pc = "candles"
    /\ inflight' = [inflight EXCEPT
                      ![th].pc = "done",
                      ![th].ret = CandlesFromStream(inflight[th].prices, np_random,
                                                    inflight[th].t)]
    /\ np_random' = RngAt(np_random, 4 * SyntheticPeriods)
    /\ UNCHANGED generator_frame

NextRace ==
    \/ \E th \in Threads : EnterGenerator(th)
    \/ \E th \in Threads : SeedStream(th)
    \/ \E th \in Threads : DrawReturns(th)
    \/ \E th \in Threads : DrawCandles(th)

SpecRace == Init /\ [][NextRace]_vars

\* ------------------------------------------------------- the start-up loop
\* the provider and the analysis, which the objects beside them never touch
provider_frame ==
    <<ticks, cache, cache_timeout, data_sources, source_status, ta_available,
      mt5_available, twelvedata_api_key, hash_salt, signals_history, fetched,
      np_random, inflight, writers, objects, cache_ref, held, config, probed>>

\* what TradingBot() or bot.run() can raise that `except Exception` catches
BotErrors == {"InvalidToken", "NetworkError"}
\* what they can raise that it does not catch
INTERRUPT == "KeyboardInterrupt"

RECURSIVE TwoToThe(_)
TwoToThe(n) == IF n = 0 THEN 1 ELSE 2 * TwoToThe(n - 1)

\* one attempt noted in the log: its number, how the run ended, and the
\* seconds main() sleeps after it (0: it does not sleep)
Attempt(number, outcome, slept) ==
    [attempt |-> number, outcome |-> outcome, slept |-> slept]

StartUpRest == <<provider_frame, calls, last, risk_manager, updates, hour,
                 sessions, refreshed, deepseek>>

\* lines 47-56: the body of the try runs through; nothing after bot.run()
\* leaves the loop, so the for statement goes on to the next attempt
BotReturns ==
    /\ main_frame.pc = "loop"
    /\ main_frame.attempt < main_max_retries
    /\ main_frame' =
          [main_frame EXCEPT
             !.log = Append(@, Attempt(main_frame.attempt + 1, "return", 0)),
             !.attempt = @ + 1,
             !.pc = IF main_frame.attempt + 1 < main_max_retries
                    THEN "loop" ELSE "returned"]
    /\ UNCHANGED <<now, StartUpRest>>

\* lines 58-67: an Exception in the try; before the last attempt main() is
\* about to sleep retry_delay seconds, at the last attempt it re-raises
BotRaises ==
    /\ main_frame.pc = "loop"
    /\ main_frame.attempt < main_max_retries
    /\ \E e \in BotErrors :
          main_frame' =
            IF main_frame.attempt < main_max_retries - 1
            THEN [main_frame EXCEPT
                    !.log = Append(@, Attempt(main_frame.attempt + 1, e,
                                              main_frame.retry_delay)),
                    !.pc = "sleep"]
            ELSE [main_frame EXCEPT
                    !.log = Append(@, Attempt(main_frame.attempt + 1, e, 0)),
                    !.attempt = @ + 1,
                    !.pc = "raised",
                    !.raised = e]
    /\ UNCHANGED <<now, StartUpRest>>

\* line 58: a BaseException that is no Exception passes the handler
BotInterrupted ==
    /\ main_frame.pc = "loop"
    /\ main_frame.attempt < main_max_retries
    /\ main_frame' =
          [main_frame EXCEPT
             !.log = Append(@, Attempt(main_frame.attempt + 1, INTERRUPT, 0)),
             !.attempt = @ + 1,
             !.pc = "raised",
             !.raised = INTERRUPT]
    /\ UNCHANGED <<now, StartUpRest>>

\* lines 63-64: time.sleep(retry_delay) returns; retry_delay *= 2
Slept ==
    /\ main_frame.pc = "sleep"
    /\ now' = now + main_frame.retry_delay
    /\ main_frame' = [main_frame EXCEPT !.retry_delay = @ * 2,
                                         !.attempt = @ + 1,
                                         !.pc = "loop"]
    /\ UNCHANGED StartUpRest

NextMain == BotReturns \/ BotRaises \/ BotInterrupted \/ Slept

SpecMain == Init /\ [][NextMain]_vars

\* ------------------------------------------------------- the risk manager
MaxTrades == 3
ZERO == Rat(0, 1)
\* line 44: the share of the balance one position may take
MAX_POSITION_SHARE == Rat(1, 10)
\* the balances, results, position sizes and prices the callers pass
Balances == {Rat(10000, 1), Rat(5000, 1), ZERO, Rat(-1000, 1)}
ProfitLosses == {Rat(-600, 1), Rat(-300, 1), ZERO, Rat(500, 1), NaN}
PositionSizes == {Rat(100, 1), Rat(2000, 1)}
TradePrices == {100, 110}

\* a loss term that lets a profit count against the losses
signed_loss(profit_loss) == Neg(profit_loss)
\* line 59: max(0, -profit_loss); max keeps the 0 unless the other is greater
trade_loss(profit_loss) ==
    IF Gt(Neg(profit_loss), ZERO) THEN Neg(profit_loss) ELSE ZERO

\* lines 56-64
update_trade_result(rm, profit_loss) ==
    [rm EXCEPT !.total_trades = @ + 1,
               !.today_losses = Plus(@, trade_loss(profit_loss)),
               !.winning_trades = IF Gt(profit_loss, ZERO) THEN @ + 1 ELSE @]

\* a new balance that leaves the daily limit as it was
set_balance_only(rm, new_balance) ==
    [rm EXCEPT !.account_balance = new_balance]
\* lines 94-98
set_account_balance(rm, new_balance) ==
    [rm EXCEPT !.account_balance = new_balance,
               !.daily_loss_limit = Times(new_balance, max_daily_risk)]

\* lines 100-103
reset_daily_losses(rm) == [rm EXCEPT !.today_losses = ZERO]

\* lines 35-54
validate_trade(rm, position_size) ==
    IF Ge(rm.today_losses, rm.daily_loss_limit) THEN FALSE
    ELSE IF Gt(position_size, Times(rm.account_balance, MAX_POSITION_SHARE))
         THEN FALSE
         ELSE TRUE

\* lines 18-33
calculate_position_size(rm, entry_price, stop_loss) ==
    LET risk_amount == Times(rm.account_balance, risk_per_trade)
        price_diff  == Abs(entry_price - stop_loss)
    IN  IF price_diff = 0 THEN ZERO
        ELSE Rat(risk_amount.n, risk_amount.d * price_diff)

RiskRest ==
    <<provider_frame, now, calls, main_frame, hour, sessions, refreshed, deepseek>>

UpdateTradeResult ==
    /\ updates < MaxTrades
    /\ \E profit_loss \in ProfitLosses :
          /\ risk_manager' = update_trade_result(risk_manager, profit_loss)
          /\ last' = [op |-> "update_trade_result", profit_loss |-> profit_loss,
                      before |-> risk_manager]
    /\ updates' = updates + 1
    /\ UNCHANGED RiskRest

SetAccountBalance ==
    /\ \E new_balance \in Balances :
          /\ risk_manager' = set_account_balance(risk_manager, new_balance)
          /\ last' = [op |-> "set_account_balance", new_balance |-> new_balance,
                      before |-> risk_manager]
    /\ UNCHANGED <<updates, RiskRest>>

ResetDailyLosses ==
    /\ risk_manager' = reset_daily_losses(risk_manager)
    /\ last' = [op |-> "reset_daily_losses", before |-> risk_manager]
    /\ UNCHANGED <<updates, RiskRest>>

ValidateTrade ==
    /\ \E position_size \in PositionSizes :
          last' = [op |-> "validate_trade", position_size |-> position_size,
                   before |-> risk_manager,
                   ret |-> validate_trade(risk_manager, position_size)]
    /\ UNCHANGED <<risk_manager, updates, RiskRest>>

CalculatePositionSize ==
    /\ \E entry_price \in TradePrices, stop_loss \in TradePrices :
          last' = [op |-> "calculate_position_size", before |-> risk_manager,
                   entry_price |-> entry_price, stop_loss |-> stop_loss,
                   ret |-> calculate_position_size(risk_manager, entry_price,
                                                   stop_loss)]
    /\ UNCHANGED <<risk_manager, updates, RiskRest>>

NextRisk ==
    \/ UpdateTradeResult
    \/ SetAccountBalance
    \/ ResetDailyLosses
    \/ ValidateTrade
    \/ CalculatePositionSize

SpecRisk == Init /\ [][NextRisk]_vars

\* ---------------------------------------------------- the session manager
\* the session names callers ask about; one of them is unknown
AskedSessions == SessionNames \cup {"sydney"}
\* line 63: the answer when no flag is set
NO_ACTIVE_SESSION == {"all pairs", "inactive hours"}
\* lines 65-69
recommendations(session) ==
    CASE session = "london"  -> {"EURUSD", "GBPUSD", "EURGBP", "GBPJPY"}
      [] session = "newyork" -> {"EURUSD", "GBPUSD", "USDJPY", "USDCAD", "AUDUSD"}
      [] session = "tokyo"   -> {"USDJPY", "EURJPY", "AUDJPY", "GBPJPY"}
      [] OTHER               -> {}

\* lines 28 and 50: open_hour <= current_hour < close_hour
in_hours(times, current_hour) ==
    times.open <= current_hour /\ current_hour < times.close

\* lines 24-29: the flags get_current_sessions writes
get_current_sessions(ss, current_hour) ==
    [s \in DOMAIN ss |-> [ss[s] EXCEPT !.active = in_hours(ss[s], current_hour)]]

\* lines 46-52
is_session_active(ss, session_name, current_hour) ==
    IF session_name \in DOMAIN ss THEN in_hours(ss[session_name], current_hour)
    ELSE FALSE

\* the pairs of every session, whatever the flags
pairs_of_every_session(ss) == UNION {recommendations(s) : s \in DOMAIN ss}
\* lines 58-75; list(set(pairs)) is the set of the pairs in some order
get_recommended_pairs(ss) ==
    LET current_sessions == {s \in DOMAIN ss : ss[s].active}
    IN  IF current_sessions = {} THEN NO_ACTIVE_SESSION
        ELSE UNION {recommendations(s) : s \in current_sessions}

SessionRest ==
    <<provider_frame, now, calls, main_frame, risk_manager, updates, deepseek>>

\* the wall clock moves on by an hour
HourPasses ==
    /\ hour' = (hour + 1) % 24
    /\ UNCHANGED <<last, sessions, refreshed, SessionRest>>

GetCurrentSessions ==
    /\ sessions' = get_current_sessions(sessions, hour)
    /\ refreshed' = <<hour>>
    /\ last' = [op |-> "get_current_sessions",
                ret |-> {s \in SessionNames : in_hours(sessions[s], hour)}]
    /\ UNCHANGED <<hour, SessionRest>>

IsSessionActive ==
    /\ \E session_name \in AskedSessions :
          last' = [op |-> "is_session_active", session_name |-> session_name,
                   before |-> sessions,
                   ret |-> is_session_active(sessions, session_name, hour)]
    /\ UNCHANGED <<hour, sessions, refreshed, SessionRest>>

GetRecommendedPairs ==
    /\ last' = [op |-> "get_recommended_pairs",
                ret |-> get_recommended_pairs(sessions)]
    /\ UNCHANGED <<hour, sessions, refreshed, SessionRest>>

NextSession ==
    HourPasses \/ GetCurrentSessions \/ IsSessionActive \/ GetRecommendedPairs

SpecSession == Init /\ [][NextSession]_vars

\* -------------------------------------------------- the DeepSeek provider
\* config.py line 12: the key when the environment sets none
DEFAULT_DEEPSEEK_API_KEY == "YOUR_DEEPSEEK_API_KEY"
\* deepseek_provider.py line 26: the key is_configured takes for a placeholder
PLACEHOLDER_API_KEY == "your_deepseek_api_key_here"
\* CONFIG.DEEPSEEK_API_KEY: unset, set to nothing, the placeholder, a key
DeepSeekKeys ==
    {DEFAULT_DEEPSEEK_API_KEY, "", PLACEHOLDER_API_KEY, "sk-live"}

\* line 26
is_configured(api_key) == api_key # "" /\ api_key # PLACEHOLDER_API_KEY

\* the market_data of a call: no dict at all, a dict with the technical
\* analysis, a dict with the close only, a dict whose close is a text
MarketData(kind, direction, momentum, close) ==
    [kind |-> kind, direction |-> direction, rsi_signal |-> momentum,
     close |-> close]
MarketDatas ==
    {MarketData("none", "", "", NaN), MarketData("price_text", "", "", NaN)}
    \cup {MarketData("technical", d[1], d[2], Rat(1, 1)) :
             d \in {<<"bullish", "neutral">>, <<"bullish", "overbought">>,
                    <<"bearish", "neutral">>, <<"bearish", "oversold">>}}
    \cup {MarketData("price", "", "", Rat(c, 1000)) : c \in {1060, 1075, 1090}}

\* what one request comes back with: an error (timeout, connection, HTTP
\* status, anything else), or a body: without choices, with a content that is
\* no text, or with a text that has some of the words looked for
Reply(success, choices, is_text, words) ==
    [success |-> success, choices |-> choices, is_text |-> is_text,
     words |-> words]
ErrorReply == Reply(FALSE, FALSE, FALSE, {})
Bodies ==
    {Reply(TRUE, FALSE, FALSE, {}), Reply(TRUE, TRUE, FALSE, {})}
    \cup {Reply(TRUE, TRUE, TRUE, w) :
             w \in {{}, {"buy"}, {"sell"}, {"buy", "sell"}, {"buying"}}}
\* the replies to the requests of one call, cut down to those the call can
\* read: it sends nothing without a key or a prompt, and nothing after a body
RepliesFor(configured, prompted) ==
    IF ~configured \/ ~prompted
    THEN {[i \in 1..deepseek_max_retries |-> ErrorReply]}
    ELSE {[i \in 1..deepseek_max_retries |-> ErrorReply]}
         \cup {[i \in 1..deepseek_max_retries |-> IF i = k THEN b ELSE ErrorReply] :
                  k \in 1..deepseek_max_retries, b \in Bodies}

Analysis(success, recommendation, provider) ==
    [success |-> success, recommendation |-> recommendation,
     provider |-> provider]

\* lines 227-237
extract_recommendation(words) ==
    IF words \cap {"buy", "sell", "buying", "selling"} # {}
    THEN IF "buy" \in words THEN "buy"
         ELSE IF "sell" \in words THEN "sell"
         ELSE "wait"
    ELSE "wait"

\* lines 257-330
get_simulated_analysis(market_data) ==
    IF market_data.kind \in {"none", "price_text"}
    THEN Analysis(FALSE, "wait", "simulation")
    ELSE IF market_data.kind = "technical"
    THEN Analysis(TRUE,
                  IF /\ market_data.direction = "bullish"
                     /\ market_data.rsi_signal # "overbought" THEN "buy"
                  ELSE IF /\ market_data.direction = "bearish"
                          /\ market_data.rsi_signal # "oversold" THEN "sell"
                  ELSE "wait",
                  "simulation for tests")
    ELSE Analysis(TRUE,
                  IF Gt(market_data.close, Rat(108, 100)) THEN "sell"
                  ELSE IF Lt(market_data.close, Rat(107, 100)) THEN "buy"
                  ELSE "wait",
                  "simulation for tests")

\* lines 199-225
parse_analysis_result(reply, market_data) ==
    IF ~reply.choices \/ ~reply.is_text THEN get_simulated_analysis(market_data)
    ELSE Analysis(TRUE, extract_recommendation(reply.words), "DeepSeek AI")

\* line 45: building the prompt raises when market_data is no dict
prompt_raises(market_data) == market_data.kind = "none"

\* lines 43-61: the attempts from `attempt` on, after `sent` requests
RECURSIVE analyze_attempts(_, _, _, _)
analyze_attempts(attempt, market_data, replies, sent) ==
    IF attempt >= deepseek_max_retries
    THEN [ret |-> get_simulated_analysis(market_data), requests |-> sent]
    ELSE IF prompt_raises(market_data)
    THEN IF attempt = deepseek_max_retries - 1
         THEN [ret |-> get_simulated_analysis(market_data), requests |-> sent]
         ELSE analyze_attempts(attempt + 1, market_data, replies, sent)
    ELSE IF replies[attempt + 1].success
    THEN [ret |-> parse_analysis_result(replies[attempt + 1], market_data),
          requests |-> sent + 1]
    ELSE analyze_attempts(attempt + 1, market_data, replies, sent + 1)

\* lines 28-61
analyze_market(api_key, market_data, replies) ==
    IF ~is_configured(api_key)
    THEN [ret |-> get_simulated_analysis(market_data), requests |-> 0]
    ELSE analyze_attempts(0, market_data, replies, 0)

DeepSeekRest ==
    <<provider_frame, now, calls, main_frame, risk_manager, updates, hour,
      sessions, refreshed>>

\* lines 13-22, with CONFIG as the environment made it
NewDeepSeekProvider ==
    /\ ~deepseek.constructed
    /\ \E key \in DeepSeekKeys :
          deepseek' = [constructed |-> TRUE, api_key |-> key]
    /\ UNCHANGED <<last, DeepSeekRest>>

AnalyzeMarket ==
    /\ deepseek.constructed
    /\ \E market_data \in MarketDatas :
        \E replies \in RepliesFor(is_configured(deepseek.api_key),
                                  ~prompt_raises(market_data)) :
          \E out \in {analyze_market(deepseek.api_key, market_data, replies)} :
             last' = [op |-> "analyze_market", market_data |-> market_data,
                      replies |-> SubSeq(replies, 1, out.requests),
                      requests |-> out.requests, ret |-> out.ret]
    /\ UNCHANGED <<deepseek, DeepSeekRest>>

NextDeepSeek == NewDeepSeekProvider \/ AnalyzeMarket

SpecDeepSeek == Init /\ [][NextDeepSeek]_vars

\* ------------------------------------------------------------------ claims
IsCall == last.op = "get_symbol_data"
IsMissCall == IsCall /\ ~last.hit
\* what adapter src gave to the latest call
AdapterOutcome(src) == CallAdapter(src, last.key[1], last.env.resp[src])
AdapterFailed(src) ==
    LET out == AdapterOutcome(src)
    IN  out.kind = "None" \/ Len(out.rows) = 0 \/ out.cols = {}
\* the adapters among the latest call's invocations, in order
InvokedAdapters == SelectSeq(last.invoked, LAMBDA x : x \in Sources)
PositionIn(seq, x) == CHOOSE i \in DOMAIN seq : seq[i] = x
OrderedCandle(row) ==
    /\ row.Low <= Min2(row.Open, row.Close)
    /\ Max2(row.Open, row.Close) <= row.High

\* C1 (cache freshness): a call made less than cache_timeout after a fetch of
\* the same key returned a series returns an equal series and invokes no
\* adapter and no synthetic generator, whatever the health of the sources.
C1_CacheFreshness ==
    (IsCall /\ last.prior.known /\ last.t - last.prior.t < cache_timeout)
        => /\ last.ret = last.prior.data
           /\ last.invoked = <<>>

\* the case of C1 the code does not meet: no source is healthy, a fetch returned
\* a series, and the next call of the key within the timeout fetches again
C1_Refetch ==
    /\ IsCall /\ last.prior.known /\ last.t - last.prior.t < cache_timeout
    /\ working_sources = <<>>
    /\ last.invoked = <<"synthetic">>

\* C2 (cache expiry): a call never returns a stored entry whose age, the
\* time of the call less the time it was stored, is cache_timeout or more.
C2_CacheExpiry ==
    (IsCall /\ last.hit) => last.t - last.cached_time < cache_timeout

\* the case of C2 the code does not meet: an entry a whole day old is served
C2_StaleHit ==
    IsCall /\ last.hit /\ last.t - last.cached_time >= SECONDS_PER_DAY

\* C3 (first success wins): on a cache miss, when an invoked adapter returns
\* a non-empty series the call returns that series, with indicator columns
\* added only when the indicator engine is available, and nothing is invoked
\* after that adapter: no lower-priority adapter, no synthetic generator.
C3_FirstSuccessWins ==
    IsMissCall =>
        \A i \in DOMAIN last.invoked :
            (last.invoked[i] \in Sources /\ ~AdapterFailed(last.invoked[i]))
                => /\ i = Len(last.invoked)
                   /\ last.ret.kind = "df"
                   /\ last.ret.rows = AdapterOutcome(last.invoked[i]).rows
                   /\ AdapterOutcome(last.invoked[i]).cols \subseteq last.ret.cols
                   /\ last.ret.cols \ AdapterOutcome(last.invoked[i]).cols
                          \subseteq INDICATOR_COLS
                   /\ (last.ret.cols # AdapterOutcome(last.invoked[i]).cols
                          => ta_available)

\* C3's case: both sources healthy, the first one succeeded, with and without
\* indicator columns
C3_Witness ==
    /\ IsMissCall
    /\ Len(working_sources) = 2
    /\ last.invoked = <<"mt5">>
    /\ ~AdapterFailed("mt5") /\ ~AdapterFailed("twelvedata")
    /\ "RSI" \in last.ret.cols

\* C4 (health-filtered try order): on a cache miss only adapters whose
\* source_status entry is true are invoked, in the order of data_sources, each
\* one only after every adapter invoked before it failed or came back empty;
\* with no healthy source the call goes straight to the synthetic generator.
C4_HealthFilteredOrder ==
    IsMissCall =>
        /\ \A i \in DOMAIN InvokedAdapters : source_status[InvokedAdapters[i]]
        /\ \A i, j \in DOMAIN InvokedAdapters :
              i < j => /\ PositionIn(data_sources, InvokedAdapters[i])
                            < PositionIn(data_sources, InvokedAdapters[j])
                       /\ AdapterFailed(InvokedAdapters[i])
        /\ (InvokedAdapters # <<>> /\ "twelvedata" \in Range(InvokedAdapters)
               /\ source_status["mt5"]) => InvokedAdapters[1] = "mt5"
        /\ (\A src \in Sources : ~source_status[src]) => last.invoked = <<"synthetic">>

\* C4's case: one source is unhealthy and the healthy one was tried
C4_Witness ==
    /\ IsMissCall
    /\ ~source_status["mt5"] /\ source_status["twelvedata"]
    /\ InvokedAdapters = <<"twelvedata">>

\* C5 (synthetic results share the cache): after a call returned a synthetic
\* series, the cache holds under the call's key an entry with that series
\* and the time of the call.
C5_SyntheticCached ==
    (IsMissCall /\ "synthetic" \in Range(last.invoked) /\ last.ret.kind = "df")
        => /\ last.key \in DOMAIN cache
           /\ cache[last.key] = [cached_time |-> last.t, data |-> last.ret]

\* the case of C5 the code does not meet: no source healthy, a synthetic
\* series returned, nothing stored under the key
C5_NotCached ==
    /\ IsMissCall /\ last.invoked = <<"synthetic">> /\ last.ret.kind = "df"
    /\ last.key \notin DOMAIN cache

\* C6 (fallback exhaustion): when no adapter gave a series (none healthy, or
\* every healthy one failed), a series returned by the call is non-empty and
\* each of its candles has Low <= min(Open, Close) and max(Open, Close) <= High.
C6_FallbackExhaustion ==
    (IsMissCall /\ "synthetic" \in Range(last.invoked) /\ last.ret.kind = "df")
        => /\ Len(last.ret.rows) > 0 /\ OHLCV \subseteq last.ret.cols
           /\ \A i \in DOMAIN last.ret.rows : OrderedCandle(last.ret.rows[i])

\* C6's case: both sources healthy, both failed, the generator's series returned
C6_Witness ==
    /\ IsMissCall
    /\ last.invoked = <<"mt5", "twelvedata", "synthetic">>
    /\ last.ret.kind = "df"
    /\ Len(last.ret.rows) > 0

\* C7 (adapter failures absorbed): an adapter that raised, returned None or
\* returned an empty series is followed by the next healthy adapter or by the
\* synthetic generator; the call returns a non-empty series, or None only
\* when the generator itself failed; and no cache entry holds a failure.
C7_FailuresAbsorbed ==
    /\ \A key \in DOMAIN cache :
          cache[key].data.kind = "df" /\ Len(cache[key].data.rows) > 0
    /\ IsMissCall =>
          /\ \A i \in DOMAIN last.invoked :
                (last.invoked[i] \in Sources /\ AdapterFailed(last.invoked[i]))
                    => /\ i < Len(last.invoked)
                       /\ last.invoked[i + 1] \in Range(working_sources) \cup {"synthetic"}
          /\ last.ret.kind = "df" => (Len(last.ret.rows) > 0 /\ last.ret.cols # {})
          /\ last.ret.kind = "None"
                => ("synthetic" \in Range(last.invoked) /\ ~last.env.gen_ok)
          /\ (last.ret.kind = "None" /\ ~last.prior.known) => last.key \notin DOMAIN cache

\* C7's case: the first adapter returned an empty frame (a malformed reply)
\* and the second one's series was returned and cached
C7_Witness ==
    /\ IsMissCall
    /\ last.invoked = <<"mt5", "twelvedata">>
    /\ last.env.resp["mt5"].kind = "malformed"
    /\ last.key \in DOMAIN cache /\ cache[last.key].data = last.ret

\* a is an initial segment of b
IsPrefix(a, b) == Len(a) <= Len(b) /\ SubSeq(b, 1, Len(a)) = a
IsAnalyzeCall == last.op \in {"analyze_symbol", "get_detailed_analysis"}

\* C8 (no-data error): when the provider gives analyze_symbol None or an empty
\* series, the handler returns an error result, raises nothing, and
\* signals_history is what it was before the call.
C8_NoDataError ==
    (IsAnalyzeCall /\ last.provided \in {"None", "empty"})
        => /\ last.result.kind = "error"
           /\ "error" \in DOMAIN last.result
           /\ signals_history = last.history_before

\* C8's case: with entries already in the history, the provider had nothing
\* for the symbol and the handler answered with an error
C8_Witness ==
    /\ last.op = "analyze_symbol"
    /\ last.provided = "None"
    /\ last.result.kind = "error"
    /\ Len(last.history_before) > 0

\* C9 (history admission): a successful analyze_symbol call returns its result
\* and appends it to signals_history exactly when its confidence is above 60
\* (60 is not admitted, 61 is); every entry of signals_history has a
\* confidence above 60.
C9_HistoryAdmission ==
    /\ \A i \in DOMAIN signals_history :
          signals_history[i].confidence.n > 60 * signals_history[i].confidence.d
    /\ (last.op = "analyze_symbol" /\ last.result.kind = "analysis")
          => /\ last.ret = last.result
             /\ signals_history =
                   IF last.result.confidence.n > 60 * last.result.confidence.d
                   THEN Append(last.history_before, last.result)
                   ELSE last.history_before
    /\ ~ShouldRecord(Rat(60, 1))
    /\ ShouldRecord(Rat(61, 1))

\* C9's case: an analysis of confidence 45 was returned and not recorded,
\* after one of higher confidence had been recorded
C9_Witness ==
    /\ last.op = "analyze_symbol"
    /\ last.result.kind = "analysis"
    /\ last.result.confidence = Rat(90, 2)
    /\ Len(last.history_before) = 1
    /\ signals_history = last.history_before

\* C10 (history is append-only): every step of every handler leaves the old
\* signals_history as a prefix of the new one, and a get_signal_history call
\* leaves it as it was.
C10_AppendOnly ==
    [][/\ IsPrefix(signals_history, signals_history')
       /\ (calls' # calls /\ last'.op = "get_signal_history")
             => signals_history' = signals_history]_vars

\* C10's case: a read of a history of several entries, capped to the latest one
C10_Witness ==
    /\ last.op = "get_signal_history"
    /\ Len(signals_history) >= 2
    /\ last.limit = 1
    /\ last.ret = <<signals_history[Len(signals_history)]>>

\* the entries of h a read with the filter symbol is about ("" is no filter)
MatchingEntries(h, symbol) ==
    SelectSeq(h, LAMBDA x : symbol = "" \/ x.symbol = symbol)

\* C11 (history read): get_signal_history(symbol, N) with N >= 0 returns the
\* last min(N, k) of the k entries matching the filter, in history order:
\* never more than N entries, never an entry of another symbol.
C11_HistoryRead ==
    (last.op = "get_signal_history" /\ last.limit >= 0)
        => LET m == MatchingEntries(last.history_before, last.symbol)
               k == Len(m)
               n == Min2(last.limit, k)
           IN  /\ last.ret = SubSeq(m, k - n + 1, k)
               /\ Len(last.ret) <= last.limit
               /\ \A i \in DOMAIN last.ret :
                     last.symbol # "" => last.ret[i].symbol = last.symbol

\* the case of C11 the code does not meet: a read with limit 0 of a history
\* that has matching entries returns all of them
C11_ZeroLimit ==
    /\ last.op = "get_signal_history"
    /\ last.limit = 0
    /\ Len(last.history_before) >= 2
    /\ last.ret = MatchingEntries(last.history_before, last.symbol)
    /\ Len(last.ret) > 0

\* the number of votes of v for direction d, and the sum of their confidences
VotesFor(v, d) == Cardinality({i \in DOMAIN v : v[i].signal = d})
ConfidenceFor(v, d) ==
    SumSeq([i \in DOMAIN v |-> IF v[i].signal = d THEN v[i].confidence ELSE 0])
ConfidenceOfAll(v) == SumSeq([i \in DOMAIN v |-> v[i].confidence])
\* x is the mean sum / count, capped at 95
IsCappedMean(x, sum, count) ==
    /\ ~IsNaN(x)
    /\ IF sum <= 95 * count THEN x.n * count = sum * x.d ELSE x.n = 95 * x.d
IsGenerateSignal == last.op = "_generate_signal"

\* C12 (signal voting): _generate_signal returns buy when the buy votes
\* outnumber the sell votes, sell when the sell votes outnumber the buy votes,
\* wait otherwise; its confidence is the mean confidence of the votes for the
\* final direction (of all cast votes on a tie), capped at 95. MA buy@70 with
\* RSI hold@50 and no S/R vote gives buy at 70; MA hold@40 with RSI buy@75 and
\* no S/R vote gives buy at 75.
C12_SignalVoting ==
    IsGenerateSignal =>
        LET v  == last.votes
            nb == VotesFor(v, "buy")
            ns == VotesFor(v, "sell")
        IN  /\ nb > ns => /\ last.ret.signal = "buy"
                          /\ IsCappedMean(last.ret.confidence,
                                          ConfidenceFor(v, "buy"), nb)
            /\ ns > nb => /\ last.ret.signal = "sell"
                          /\ IsCappedMean(last.ret.confidence,
                                          ConfidenceFor(v, "sell"), ns)
            /\ nb = ns => /\ last.ret.signal = "wait"
                          /\ IsCappedMean(last.ret.confidence,
                                          ConfidenceOfAll(v), Len(v))
            /\ v = <<Vote("buy", 70), Vote("hold", 50)>>
                  => last.ret = [signal |-> "buy", confidence |-> Rat(70, 1)]
            /\ v = <<Vote("hold", 40), Vote("buy", 75)>>
                  => last.ret = [signal |-> "buy", confidence |-> Rat(75, 1)]
            /\ (/\ last.price = 1100 /\ last.ma20 = Rat(1050, 1)
                /\ last.ma50 = Rat(1000, 1) /\ last.rsi = Rat(50, 1)
                /\ last.support = 900 /\ last.resistance = 1300)
                  => last.ret = [signal |-> "buy", confidence |-> Rat(70, 1)]
            /\ (/\ last.price = 1000 /\ last.ma20 = Rat(1000, 1)
                /\ last.ma50 = Rat(1000, 1) /\ last.rsi = Rat(25, 1)
                /\ last.support = 900 /\ last.resistance = 1300)
                  => last.ret = [signal |-> "buy", confidence |-> Rat(75, 1)]

\* C12's case: the spec's scenario "MA-only buy", one buy vote against a hold
C12_Witness ==
    /\ IsGenerateSignal
    /\ last.price = 1100 /\ last.ma20 = Rat(1050, 1) /\ last.ma50 = Rat(1000, 1)
    /\ last.rsi = Rat(50, 1) /\ last.support = 900 /\ last.resistance = 1300
    /\ last.votes = <<Vote("buy", 70), Vote("hold", 50)>>
    /\ last.ret.signal = "buy"

\* abs(price - level) / price < 0.01 for a positive price
WithinOnePercent(price, level) == 100 * Abs(price - level) < price
\* price < MA20 < MA50, RSI > 70 and the price within 1% of resistance
IsSellSetup ==
    /\ IsGenerateSignal
    /\ ~IsNaN(last.ma20) /\ ~IsNaN(last.ma50) /\ ~IsNaN(last.rsi)
    /\ last.price * last.ma20.d < last.ma20.n
    /\ last.ma20.n * last.ma50.d < last.ma50.n * last.ma20.d
    /\ last.rsi.n > 70 * last.rsi.d
    /\ WithinOnePercent(last.price, last.resistance)

\* C13 as stated (unanimous sell near resistance): with price < MA20 < MA50,
\* RSI > 70 and the price within 1% of resistance, whatever the support level,
\* _generate_signal returns sell with confidence mean(70, 75, 80) = 75.
C13_UnanimousSell ==
    IsSellSetup => last.ret = [signal |-> "sell", confidence |-> Rat(75, 1)]

\* C13 amended: with price < MA20 < MA50, RSI > 70 and the price within 1% of
\* resistance, _generate_signal returns sell; with confidence 75, the mean of
\* 70, 75 and 80, when the price is not within 1% of support, and with
\* confidence 72.5, the mean of 70 and 75, when it is (the level vote is buy).
C13_UnanimousSellFarFromSupport ==
    IsSellSetup =>
        /\ last.ret.signal = "sell"
        /\ ~WithinOnePercent(last.price, last.support)
              => /\ RatEq(last.ret.confidence, Rat(75, 1))
                 /\ last.votes = <<Vote("sell", 70), Vote("sell", 75), Vote("sell", 80)>>
        /\ WithinOnePercent(last.price, last.support)
              => /\ RatEq(last.ret.confidence, Rat(145, 2))
                 /\ last.votes = <<Vote("sell", 70), Vote("sell", 75), Vote("buy", 80)>>

\* C13's case: the spec's scenario (price 99, MA20 101, MA50 102, RSI 72,
\* resistance 99.5) with the support far below
C13_Witness ==
    /\ IsSellSetup
    /\ last.price = 990 /\ last.ma20 = Rat(1010, 1) /\ last.ma50 = Rat(1020, 1)
    /\ last.rsi = Rat(72, 1) /\ last.resistance = 995 /\ last.support = 900
    /\ last.ret.signal = "sell"

\* 0 <= x <= 95 for a float x
InConfidenceBounds(x) == ~IsNaN(x) /\ x.d > 0 /\ 0 <= x.n /\ x.n <= 95 * x.d

\* C14 (confidence bounds): the confidence of every analysis analyze_symbol
\* returns, of every entry of signals_history and of every entry
\* get_trading_signals returns lies in [0, 95].
C14_ConfidenceBounds ==
    /\ \A i \in DOMAIN signals_history :
          InConfidenceBounds(signals_history[i].confidence)
    /\ (IsAnalyzeCall /\ last.result.kind = "analysis")
          => InConfidenceBounds(last.result.confidence)
    /\ last.op = "get_trading_signals"
          => \A i \in DOMAIN last.ret : InConfidenceBounds(last.ret[i].confidence)

\* C14's case: a batch of signals with two agreeing votes behind one of them
\* (confidence 77.5), recorded in the history as well
C14_Witness ==
    /\ last.op = "get_trading_signals"
    /\ \E i \in DOMAIN last.ret : last.ret[i].confidence = Rat(155, 2)
    /\ \E i \in DOMAIN signals_history : signals_history[i].confidence = Rat(155, 2)

\* a < b for floats a and b, false when either is NaN
FloatBelow(a, b) == a.d # 0 /\ b.d # 0 /\ a.n * b.d < b.n * a.d
IsDetermineTrend == last.op = "_determine_trend"
ShortTermTrend == IF FloatBelow(last.ma20, Rat(last.price, 1)) THEN "up" ELSE "down"
LongTermTrend ==
    IF FloatBelow(last.ma50, last.ma20) /\ FloatBelow(last.ma200, last.ma50) THEN "up"
    ELSE IF FloatBelow(last.ma20, last.ma50) /\ FloatBelow(last.ma50, last.ma200)
    THEN "down"
    ELSE "sideways"

\* C15 (trend strength): _determine_trend returns strength 85 exactly when the
\* short-term trend (up if price > MA20, else down) equals the long-term trend
\* (up if MA20 > MA50 > MA200, down if MA20 < MA50 < MA200, else sideways), 50
\* exactly when the long-term trend is sideways, 30 in every other case.
C15_TrendStrength ==
    IsDetermineTrend =>
        /\ last.ret.trend_strength = 85 <=> ShortTermTrend = LongTermTrend
        /\ last.ret.trend_strength = 50 <=> LongTermTrend = "sideways"
        /\ last.ret.trend_strength = 30
              <=> (ShortTermTrend # LongTermTrend /\ LongTermTrend # "sideways")
        /\ last.ret.trend_strength \in {30, 50, 85}
        /\ last.ret.trend = <<ShortTermTrend, LongTermTrend>>

\* C15's case: the price on MA20, which counts as a short-term down, under
\* falling averages: strength 85
C15_Witness ==
    /\ IsDetermineTrend
    /\ last.price = 1000 /\ last.ma20 = Rat(1000, 1)
    /\ last.ma50 = Rat(1020, 1) /\ last.ma200 = Rat(1030, 1)
    /\ last.ret.trend_strength = 85

\* C16 (MA and RSI voters): in every analysis the MA voter casts exactly one
\* vote, buy@70 iff price > MA20 > MA50, sell@70 iff price < MA20 < MA50,
\* hold@40 otherwise, and the RSI voter casts exactly one vote, buy@75 iff
\* RSI < 30, sell@75 iff RSI > 70, hold@50 otherwise (30 and 70 are hold).
C16_MAandRSIVoters ==
    IsGenerateSignal =>
        LET p       == Rat(last.price, 1)
            ma_buy  == FloatBelow(last.ma20, p) /\ FloatBelow(last.ma50, last.ma20)
            ma_sell == FloatBelow(p, last.ma20) /\ FloatBelow(last.ma20, last.ma50)
            rsi_buy  == FloatBelow(last.rsi, Rat(30, 1))
            rsi_sell == FloatBelow(Rat(70, 1), last.rsi)
        IN  /\ Len(last.votes) >= 2
            /\ \A i \in DOMAIN last.votes : i > 2 => last.votes[i].confidence = 80
            /\ last.votes[1] = Vote("buy", 70) <=> ma_buy
            /\ last.votes[1] = Vote("sell", 70) <=> ma_sell
            /\ last.votes[1] = Vote("hold", 40) <=> (~ma_buy /\ ~ma_sell)
            /\ last.votes[2] = Vote("buy", 75) <=> rsi_buy
            /\ last.votes[2] = Vote("sell", 75) <=> rsi_sell
            /\ last.votes[2] = Vote("hold", 50) <=> (~rsi_buy /\ ~rsi_sell)
            /\ last.rsi \in {Rat(30, 1), Rat(70, 1)} => last.votes[2] = Vote("hold", 50)

\* C16's case: an RSI of exactly 70 under falling averages: the MA voter
\* sells, the RSI voter holds
C16_Witness ==
    /\ IsGenerateSignal
    /\ last.rsi = Rat(70, 1)
    /\ last.price = 990 /\ last.ma20 = Rat(1000, 1) /\ last.ma50 = Rat(1020, 1)
    /\ last.votes[1] = Vote("sell", 70)
    /\ last.votes[2] = Vote("hold", 50)

\* the votes cast after those of the MA and RSI voters
LevelVotes == SubSeq(last.votes, 3, Len(last.votes))

\* C17 (support/resistance voter): it casts buy@80 when the price is within
\* 1% of support, sell@80 when it is within 1% of resistance and not of
\* support, and nothing otherwise (no hold vote): at most one vote, so that 2
\* or 3 votes are cast in all, and buy when the price is within 1% of both.
C17_SupportResistanceVoter ==
    IsGenerateSignal =>
        LET near_support    == WithinOnePercent(last.price, last.support)
            near_resistance == WithinOnePercent(last.price, last.resistance)
        IN  /\ Len(last.votes) \in {2, 3}
            /\ Len(LevelVotes) <= 1
            /\ near_support => LevelVotes = <<Vote("buy", 80)>>
            /\ (near_resistance /\ ~near_support) => LevelVotes = <<Vote("sell", 80)>>
            /\ (~near_support /\ ~near_resistance) => LevelVotes = <<>>
            /\ \A i \in DOMAIN LevelVotes : LevelVotes[i].signal # "hold"

\* C17's case: the price within 1% of both levels, the vote is buy
C17_Witness ==
    /\ IsGenerateSignal
    /\ last.price = 990 /\ last.support = 985 /\ last.resistance = 995
    /\ Len(last.votes) = 3
    /\ LevelVotes = <<Vote("buy", 80)>>

\* the (timestamp, series) pair thread t built for its store
PairOf(t) == [cached_time |-> inflight[t].stamp, data |-> inflight[t].data]
HasWritten(t) == \E i \in DOMAIN writers : writers[i] = t

\* C18 (concurrent cache access): with the warm-up thread and a handler in
\* get_symbol_data on the same key, under every interleaving the cache maps
\* the key to no entry or to the complete (timestamp, series) pair of one
\* caller that stored, never to a mix of two callers' values, and the entry
\* is the pair of the caller that stored last.
C18_ConcurrentCache ==
    /\ DOMAIN cache \subseteq {SharedKey}
    /\ SharedKey \in DOMAIN cache <=> writers # <<>>
    /\ writers # <<>> =>
          /\ \E t \in Threads : HasWritten(t) /\ cache[SharedKey] = PairOf(t)
          /\ cache[SharedKey] = PairOf(writers[Len(writers)])
          /\ cache[SharedKey].data.kind = "df"
    /\ \A t \in Threads : HasWritten(t) => inflight[t].pc = "done"

\* C18's case: both threads missed and fetched different series; the one that
\* read the clock first stored last, and its pair is the entry left at the end
C18_Witness ==
    /\ Len(writers) = 2
    /\ \A t \in Threads : inflight[t].pc = "done"
    /\ inflight[writers[2]].stamp < inflight[writers[1]].stamp
    /\ inflight[writers[2]].data # inflight[writers[1]].data
    /\ cache[SharedKey] = PairOf(writers[2])

\* C19 (synthetic determinism): two calls of the synthetic generator for the
\* same symbol in one process, made one after the other at the same current
\* time, give identical series: the same timestamps and the same OHLCV values.
C19_SyntheticDeterminism ==
    (/\ last.op = "_get_dynamic_default_data"
     /\ last.earlier.known
     /\ last.earlier.symbol = last.symbol
     /\ last.earlier.t = last.t
     /\ last.ret.kind = "df" /\ last.earlier.ret.kind = "df")
        => /\ last.ret = last.earlier.ret
           /\ \A i \in DOMAIN last.ret.rows :
                 last.ret.rows[i] = last.earlier.ret.rows[i]

\* C19's case: the generator ran twice for EURUSD at one time, after other
\* draws had moved the stream, and returned a full series both times
C19_Witness ==
    /\ last.op = "_get_dynamic_default_data"
    /\ last.earlier.known
    /\ last.earlier.symbol = "EURUSD" /\ last.symbol = "EURUSD"
    /\ last.earlier.t = last.t
    /\ last.earlier.ret.kind = "df"
    /\ last.ret.kind = "df" /\ Len(last.ret.rows) = SyntheticPeriods
    /\ np_random # 0

\* the adapters invoked by the provider call recorded in rec
AdaptersInvoked(rec) ==
    IF rec.op = "get_symbol_data" THEN Range(rec.invoked) \cap Sources
    ELSE IF rec.op \in {"get_current_price", "get_market_summary",
                        "get_fast_market_summary"}
    THEN UNION {Range(rec.invoked[i]) : i \in DOMAIN rec.invoked} \cap Sources
    ELSE {}

\* C20 (the health map is never re-probed): every step of get_symbol_data,
\* get_current_price, get_market_summary, get_fast_market_summary and
\* clear_cache leaves source_status as construction set it, whatever the
\* adapters return: a source that fails in a fetch stays marked healthy, and
\* a source marked unhealthy is not invoked.
C20_HealthMapFrozen ==
    [][/\ source_status' = source_status
       /\ calls' # calls =>
             \A src \in AdaptersInvoked(last') :
                source_status[src] /\ source_status'[src]]_vars

\* C20's case: in a market summary the healthy source failed and the generator
\* stood in; the source is still marked healthy, and the unhealthy one was
\* not tried
C20_Witness ==
    /\ last.op = "get_market_summary"
    /\ \E i \in DOMAIN last.invoked : last.invoked[i] = <<"twelvedata", "synthetic">>
    /\ ~source_status["mt5"]
    /\ source_status["twelvedata"]

\* a caller holds a series fetched for the latest call's key and has changed it
MutatedFor(key) ==
    \E oid \in held : objects[oid].key = key /\ CALLER_COLUMN \in objects[oid].data.cols

\* C21: whatever callers do to the series get_symbol_data gave them, the cache
\* keeps for every key the series as it was fetched, and a cache hit returns it
C21_DefensiveCopy ==
    /\ \A key \in DOMAIN cache :
          /\ CALLER_COLUMN \notin cache[key].data.cols
          /\ key \in DOMAIN fetched /\ cache[key].data = fetched[key].data
    /\ (IsCall /\ last.hit) => last.ret = last.prior.data
\* a cache hit on a key for which a caller has changed a series it was given
C21_Witness == IsCall /\ last.hit /\ MutatedFor(last.key)

\* the latest step was a call of clear_cache
ClearStep == calls' # calls /\ last'.op = "clear_cache"
\* the series keys among the given cache keys
SeriesKeys(keys) == {key \in keys : Len(key) = 3}

\* C22: a step of clear_cache leaves the cache without any entry, so that a
\* get_symbol_data on any key it dropped, or on any key the callers use, goes
\* past the cache; the step leaves source_status, the source list and the
\* signal history as they were
C22_ClearCache ==
    [][ClearStep =>
         /\ cache' = <<>>
         /\ \A key \in SeriesKeys(DOMAIN cache)
                         \cup {CacheKey(symbol, "3mo", "4h") : symbol \in Symbols} :
               ~get_symbol_data(cache', key[1], key[2], key[3], DefaultEnv).hit
         /\ source_status' = source_status
         /\ data_sources' = data_sources
         /\ signals_history' = signals_history]_vars
\* clear_cache has dropped a series entry and a current-price entry, with a
\* signal in the history
C22_Witness ==
    /\ last.op = "clear_cache"
    /\ \E key \in last.dropped : Len(key) = 3
    /\ \E key \in last.dropped : Len(key) = 2
    /\ signals_history # <<>>
    /\ cache = <<>>

\* the latest call analyzed a series that an adapter had just fetched
IsAdapterSeries ==
    /\ last.op = "analyze_symbol" /\ "candles" \in DOMAIN last
    /\ ~last.hit /\ last.invoked # <<>>
    /\ "synthetic" \notin Range(last.invoked)
\* every field of the Analysis Result is there and holds a value
CompleteResult(a) ==
    /\ {"symbol", "current_price", "trend", "trend_strength", "signal", "confidence",
        "rsi", "ma20", "ma50", "ma200", "support", "resistance", "volatility",
        "timestamp"} \subseteq DOMAIN a
    /\ ~IsNaN(a.confidence) /\ ~IsNaN(a.rsi)
    /\ ~IsNaN(a.ma20) /\ ~IsNaN(a.ma50) /\ ~IsNaN(a.ma200)
    /\ a.volatility.defined

\* C23 (complete result or error): analyze_symbol on a series fetched by an
\* adapter, however short, returns an error result or an Analysis Result whose
\* fields all hold a defined value.
C23_CompleteOrError ==
    IsAdapterSeries =>
        \/ last.result.kind = "error"
        \/ last.result.kind = "analysis" /\ CompleteResult(last.result)
\* C23's failing case: an adapter gave 15 candles; the call returned no error
\* but a result whose ma20, ma50 and ma200 are NaN, and the moving-average
\* vote behind its signal was cast from them
C23_ShortSeries ==
    /\ IsAdapterSeries
    /\ last.candles = 15
    /\ last.result.kind = "analysis"
    /\ IsNaN(last.result.ma20) /\ IsNaN(last.result.ma50) /\ IsNaN(last.result.ma200)
    /\ ma_signal(last.result.current_price, last.result.ma20, last.result.ma50)
          = Vote("hold", 40)

\* the analyses of a batch that are no error results, in the order made
Succeeded_(results) == SelectSeq(results, LAMBDA a : a.kind # "error")
\* the confidences of seq never rise from one entry to the next
NonIncreasing(seq) ==
    \A i \in DOMAIN seq : \A j \in DOMAIN seq :
        i < j => ~Lt(seq[i].confidence, seq[j].confidence)
\* the symbols of seq, in order
SymbolsOf(seq) == [i \in DOMAIN seq |-> seq[i].symbol]
\* seq names no symbol twice
NoRepeat(seq) == \A i \in DOMAIN seq : \A j \in DOMAIN seq : seq[i] = seq[j] => i = j

\* C24 (batch signals): get_trading_signals analyzes the eight symbols of its
\* watch list once each, in list order; what it returns holds exactly the
\* symbols whose analysis was no error, each once with the values of its
\* analysis, in order of non-increasing confidence.
C24_BatchSignals ==
    last.op = "get_trading_signals" =>
        /\ Len(SIGNAL_SYMBOLS) = 8
        /\ SymbolsOf(last.results) = SIGNAL_SYMBOLS
        /\ NoRepeat(SymbolsOf(last.ret))
        /\ Range(last.ret) = {SignalEntry(a) : a \in Range(Succeeded_(last.results))}
        /\ NonIncreasing(last.ret)
\* C24's case: a batch in which a symbol failed and a later symbol of the list
\* got a higher confidence than an earlier one, and so comes before it
C24_Witness ==
    /\ last.op = "get_trading_signals"
    /\ \E i \in DOMAIN last.results : last.results[i].kind = "error"
    /\ \E i \in DOMAIN last.ret : \E j \in DOMAIN last.ret :
          /\ i < j
          /\ Gt(last.ret[i].confidence, last.ret[j].confidence)
          /\ PositionIn(SIGNAL_SYMBOLS, last.ret[i].symbol)
                > PositionIn(SIGNAL_SYMBOLS, last.ret[j].symbol)

\* C25 (batch market analysis): get_market_analysis lists the symbols of its
\* watch list whose analysis was no error, in order of non-increasing
\* confidence.
C25_MarketAnalysisSorted ==
    last.op = "get_market_analysis" =>
        /\ SymbolsOf(last.ret) = SymbolsOf(Succeeded_(last.results))
        /\ NonIncreasing(Succeeded_(last.results))
\* C25's failing case: the text lists its symbols in watch-list order, and a
\* symbol of lower confidence stands above one of higher confidence
C25_ListOrder ==
    /\ last.op = "get_market_analysis"
    /\ SymbolsOf(last.ret) = SymbolsOf(Succeeded_(last.results))
    /\ \E i \in DOMAIN last.ret : \E j \in DOMAIN last.ret :
          /\ i < j
          /\ PositionIn(MARKET_SYMBOLS, last.ret[i].symbol)
                < PositionIn(MARKET_SYMBOLS, last.ret[j].symbol)
          /\ Lt(Succeeded_(last.results)[i].confidence,
                Succeeded_(last.results)[j].confidence)

\* C26 (injected configuration): the cache timeout of the provider is the
\* DATA_CACHE_TIMEOUT of the configuration it was constructed with, so that no
\* call is served from an entry that old; the Twelve Data key is the
\* configuration's.
C26_InjectedTimeout ==
    /\ cache_timeout = config.DATA_CACHE_TIMEOUT
    /\ twelvedata_api_key = config.TWELVEDATA_API_KEY
    /\ (IsCall /\ last.hit) =>
          TimedeltaSeconds(last.t - last.cached_time) < config.DATA_CACHE_TIMEOUT
\* C26's failing case: a call served from an entry older than the configured
\* timeout, by a provider whose own timeout is another number
C26_StaleHit ==
    /\ IsCall /\ last.hit
    /\ last.t - last.cached_time >= config.DATA_CACHE_TIMEOUT
    /\ last.t - last.cached_time < cache_timeout
    /\ cache_timeout # config.DATA_CACHE_TIMEOUT

\* the latest call computed the RSI itself, over a full window of the closes
\* an adapter gave
ComputedRSI ==
    /\ IsAdapterSeries
    /\ last.result.kind = "analysis"
    /\ ~last.has_rsi
    /\ last.candles > RSI_PERIOD
\* no close of the last RSI_PERIOD differences is below the one before it
NoLossInWindow(closes) ==
    \A i \in DOMAIN closes :
        (i > 1 /\ i > Len(closes) - RSI_PERIOD) => closes[i] >= closes[i - 1]
\* the closes never move
IsConstant(closes) == \A i \in DOMAIN closes : closes[i] = closes[1]

\* C27 (RSI bounds): the RSI that analyze_symbol reports from _calculate_rsi
\* is a number in [0, 100], and it is 100 when the window holds no loss.
C27_RSIBounds ==
    ComputedRSI =>
        /\ ~IsNaN(last.result.rsi)
        /\ last.result.rsi.n >= 0
        /\ last.result.rsi.n <= 100 * last.result.rsi.d
        /\ NoLossInWindow(last.closes) => RatEq(last.result.rsi, Rat(100, 1))
\* C27's failing case: 50 closes that never move; mean gain and mean loss are
\* both 0 and the reported RSI is NaN
C27_ConstantSeries ==
    /\ ComputedRSI
    /\ last.candles = 50
    /\ IsConstant(last.closes)
    /\ IsNaN(last.result.rsi)

\* the upstream of adapter src gave the latest call a frame without one of its
\* required columns
GotMalformed(src) == last.env.resp[src].kind = "malformed"
\* what follows src in the latest call: the next healthy adapter, or the
\* generator after the last one
NextAfter(src) ==
    LET k == PositionIn(working_sources, src)
    IN  IF k < Len(working_sources) THEN working_sources[k + 1] ELSE "synthetic"
\* full frames with some of the required columns taken away
FramesLacking ==
    {[RawFrame(resp) EXCEPT !.cols = @ \ missing] :
        resp \in {r \in Responses : r.kind = "frame"},
        missing \in (SUBSET Range(OHLC)) \ {{}}}

\* C28 (malformed series): _clean_data turns a frame that lacks any of Open,
\* High, Low, Close into an empty frame; an adapter given such a frame counts
\* as failed, the call goes on with the next healthy adapter or the generator,
\* and the cache never holds a frame that lacks a required column.
C28_MalformedSeries ==
    /\ \A frame \in FramesLacking : clean_data(frame) = EmptyFrame
    /\ \A key \in DOMAIN cache :
          Range(OHLC) \subseteq cache[key].data.cols /\ Len(cache[key].data.rows) > 0
    /\ IsMissCall =>
          \A i \in DOMAIN last.invoked :
             (last.invoked[i] \in Sources /\ GotMalformed(last.invoked[i]))
                => /\ AdapterOutcome(last.invoked[i]) = EmptyFrame
                   /\ i < Len(last.invoked)
                   /\ last.invoked[i + 1] = NextAfter(last.invoked[i])
                   /\ last.ret.kind = "df" => Range(OHLC) \subseteq last.ret.cols
\* C28's case: the last healthy adapter was given a frame without Close; the
\* generator stood in and its series was cached
C28_Witness ==
    /\ IsMissCall
    /\ Len(last.invoked) >= 2
    /\ last.invoked[Len(last.invoked) - 1] = "twelvedata"
    /\ GotMalformed("twelvedata")
    /\ last.invoked[Len(last.invoked)] = "synthetic"
    /\ last.key \in DOMAIN cache /\ cache[last.key].data = last.ret
    /\ Range(OHLC) \subseteq last.ret.cols

\* the series the latest call obtained before the attach step: the one of the
\* adapter that succeeded, or else the generator's
ObtainedSeries ==
    IF \E src \in Range(InvokedAdapters) : ~AdapterFailed(src)
    THEN AdapterOutcome(CHOOSE src \in Range(InvokedAdapters) : ~AdapterFailed(src))
    ELSE get_dynamic_default_data(last.key[1], hash_salt, last.t, last.env.gen_ok)
\* the latest call went past the cache to a healthy source and could attach
\* no indicator: the engine is not installed, or it raised
AttachFailed ==
    /\ IsMissCall
    /\ InvokedAdapters # <<>>
    /\ ~ta_available \/ last.env.ta.outcome = "raise"

C30_IndicatorsOnMiss ==
    (IsMissCall /\ ta_available /\ last.env.ta.outcome = "ok" /\ last.ret.kind = "df")
        => INDICATOR_COLS \subseteq last.ret.cols
\* C30's failing case: no source is healthy; the generator's series is
\* returned as generated, without one indicator column, although the engine
\* is installed and would have worked
C30_BareSynthetic ==
    /\ IsMissCall /\ ta_available /\ last.env.ta.outcome = "ok"
    /\ working_sources = <<>>
    /\ last.invoked = <<"synthetic">>
    /\ last.ret.kind = "df" /\ Len(last.ret.rows) > 0
    /\ last.ret.cols \cap INDICATOR_COLS = {}

\* the sources the latest on-demand probe found healthy, in priority order
ProbedHealthy == SelectSeq(data_sources, LAMBDA src : probed[src])

\* C31 (on-demand probe): after test_all_sources was called on the provider,
\* a cache miss attempts the adapters its latest result names healthy, in
\* priority order from the first, and no adapter when it names none.
C31_ProbeDecidesAttempts ==
    (IsMissCall /\ probed # <<>>) =>
        /\ IsPrefix(InvokedAdapters, ProbedHealthy)
        /\ ProbedHealthy # <<>> => InvokedAdapters # <<>>
\* C31's failing case: the latest probe found mt5 healthy, and the cache miss
\* that followed went straight to the generator, as the health map of the
\* construction has no healthy source
C31_ProbeIgnored ==
    /\ IsMissCall /\ probed # <<>>
    /\ probed["mt5"]
    /\ ~source_status["mt5"] /\ ~source_status["twelvedata"]
    /\ last.invoked = <<"synthetic">>

\* thread th has left the generator
HasGenerated(th) == "symbol" \in DOMAIN inflight[th] /\ inflight[th].pc = "done"
\* the series the generation of thread th gives when it runs alone
AloneSeries(th) ==
    get_dynamic_default_data(inflight[th].symbol, hash_salt, inflight[th].t, TRUE)

\* C32 (concurrent synthetic generation): whatever the other thread does
\* meanwhile, a generation returns the series it returns when run alone for
\* its symbol and time.
C32_UndisturbedStream ==
    \A th \in Threads : HasGenerated(th) => inflight[th].ret = AloneSeries(th)
\* C32's failing case: the handler thread seeded the stream after the warm-up
\* thread had seeded it and before the warm-up thread drew from it; the
\* handler's series is the one of a run alone, the warm-up thread's is not
C32_DisturbedStream ==
    /\ HasGenerated("preload") /\ HasGenerated("handler")
    /\ inflight["preload"].symbol # inflight["handler"].symbol
    /\ inflight["handler"].ret = AloneSeries("handler")
    /\ inflight["preload"].ret # AloneSeries("preload")

\* every list of votes _generate_signal can hold before it decides
AllVotes ==
    {<<ma, rsi>> \o sr :
        ma \in {Vote("buy", 70), Vote("sell", 70), Vote("hold", 40)},
        rsi \in {Vote("buy", 75), Vote("sell", 75), Vote("hold", 50)},
        sr \in {<<>>, <<Vote("buy", 80)>>, <<Vote("sell", 80)>>}}
\* the MA voter holds, the RSI voter holds, the level voter abstains
IsQuiet(votes) == votes = <<Vote("hold", 40), Vote("hold", 50)>>
\* the votes behind the analysis a
VotesOf(a) ==
    cast_votes(a.current_price, a.ma20, a.ma50, a.rsi, a.support, a.resistance)

\* C33 (reachable confidences and admission): over all vote combinations the
\* decided confidence is at most 80, and below 65 only for the quiet
\* combination, where it is 45; so a successful analyze_symbol call appends its
\* result to signals_history unless its votes are the quiet combination, wait
\* results included.
C33_ReachableConfidences ==
    /\ \A votes \in AllVotes :
          LET c == final_decision(votes).confidence
          IN  /\ ~Gt(c, Rat(80, 1))
              /\ Lt(c, Rat(65, 1)) => (IsQuiet(votes) /\ RatEq(c, Rat(45, 1)))
              /\ IsQuiet(votes) => RatEq(c, Rat(45, 1))
    /\ RatEq(final_decision(<<Vote("buy", 70), Vote("sell", 75)>>).confidence, Rat(145, 2))
    /\ (last.op = "analyze_symbol" /\ last.result.kind = "analysis") =>
          /\ VotesOf(last.result) \in AllVotes
          /\ last.result.confidence = final_decision(VotesOf(last.result)).confidence
          /\ signals_history =
                IF IsQuiet(VotesOf(last.result)) THEN last.history_before
                ELSE Append(last.history_before, last.result)
\* C33's case: the votes of an analysis were tied, buy against sell; the wait
\* result has a confidence above 60 and was appended to the history
C33_Witness ==
    /\ last.op = "analyze_symbol" /\ last.result.kind = "analysis"
    /\ last.result.signal = "wait"
    /\ Gt(last.result.confidence, Rat(60, 1))
    /\ signals_history = Append(last.history_before, last.result)

\* the latest call analyzed a series of at least 50 and fewer than 200 candles
IsMidSeries ==
    /\ last.op = "analyze_symbol" /\ "candles" \in DOMAIN last
    /\ last.result.kind = "analysis"
    /\ last.candles >= MA_MID /\ last.candles < MA_LONG

\* C34 (short series trend): on a series of at least 50 and fewer than 200
\* candles analyze_symbol reports ma200 equal to ma50, a long-term trend that
\* is sideways, and the trend strength 50.
C34_ShortSeriesTrend ==
    IsMidSeries =>
        /\ ~IsNaN(last.result.ma50)
        /\ last.result.ma200 = last.result.ma50
        /\ last.result.trend[2] = "sideways"
        /\ last.result.trend_strength = 50
\* C34's case: 60 candles that rise throughout, price above MA20 above MA50;
\* the trend is reported as up within a sideways long-term trend, strength 50
C34_Witness ==
    /\ IsMidSeries
    /\ last.candles = 60
    /\ Gt(Rat(last.result.current_price, 1), last.result.ma20)
    /\ Gt(last.result.ma20, last.result.ma50)
    /\ last.result.trend = <<"up", "sideways">>
    /\ last.result.trend_strength = 50

\* C35 (start-up retry loop): main() makes at most 5 attempts; after a failed
\* attempt k < 5 it sleeps 30 * 2^(k-1) seconds; when it raises one of the
\* bot's errors, it has made 5 attempts and the error is the 5th attempt's.
Failed(entry) == entry.outcome \in BotErrors
C35_RetryLoop ==
    LET log == main_frame.log
    IN  /\ Len(log) <= main_max_retries
        /\ \A k \in DOMAIN log :
              Failed(log[k]) /\ k < main_max_retries
                  => log[k].slept = main_retry_delay * TwoToThe(k - 1)
        /\ main_frame.raised \in BotErrors
              => /\ Len(log) = main_max_retries
                 /\ log[main_max_retries].outcome = main_frame.raised
\* the case that fails: the first run returns, the second one fails, and
\* main() sleeps 30 seconds where attempt 2 should be followed by 60
C35_FailureAfterReturn ==
    /\ Len(main_frame.log) >= 2
    /\ main_frame.log[1].outcome = "return"
    /\ Failed(main_frame.log[2])
    /\ main_frame.log[2].slept = main_retry_delay
    /\ main_frame.log[2].slept # main_retry_delay * TwoToThe(1)

\* C36 (daily loss lock-out): today_losses is never negative, and
\* update_trade_result never lowers it; when today_losses >= daily_loss_limit,
\* validate_trade returns False whatever the trade; and a manager that is
\* locked stays locked over every call that is neither reset_daily_losses nor
\* set_account_balance.
Locked(rm) == Ge(rm.today_losses, rm.daily_loss_limit)
Unlocking == {"reset_daily_losses", "set_account_balance"}
LossesKept ==
    /\ Ge(risk_manager.today_losses, ZERO)
    /\ last.op = "update_trade_result"
          => Ge(risk_manager.today_losses, last.before.today_losses)
    /\ last.op = "validate_trade" /\ Locked(last.before) => last.ret = FALSE
LockKept == Locked(risk_manager) /\ last'.op \notin Unlocking => Locked(risk_manager')
C36_DailyLossLockOut == [](LossesKept) /\ [][LockKept]_vars
\* C36's case: a trade of admissible size is refused by a locked manager that
\* has booked a profit since and is still locked
C36_Witness ==
    /\ last.op = "validate_trade"
    /\ Locked(last.before)
    /\ ~Gt(last.position_size,
           Times(last.before.account_balance, MAX_POSITION_SHARE))
    /\ last.ret = FALSE
    /\ last.before.winning_trades >= 1
    /\ last.before.account_balance = Rat(DEFAULT_INITIAL_BALANCE, 1)

\* C37 (RiskManager invariants): winning_trades <= total_trades, total_trades
\* is the number of update_trade_result calls, daily_loss_limit is
\* account_balance * max_daily_risk, and update_trade_result leaves
\* account_balance and daily_loss_limit as they were.
C37_RiskManagerInvariants ==
    /\ risk_manager.winning_trades <= risk_manager.total_trades
    /\ risk_manager.total_trades = updates
    /\ risk_manager.daily_loss_limit =
          Times(risk_manager.account_balance, max_daily_risk)
    /\ last.op = "update_trade_result"
          => /\ risk_manager.account_balance = last.before.account_balance
             /\ risk_manager.daily_loss_limit = last.before.daily_loss_limit
\* C37's case: a trade booked on a balance that was set after construction
C37_Witness ==
    /\ last.op = "update_trade_result"
    /\ risk_manager.account_balance = Rat(5000, 1)
    /\ risk_manager.daily_loss_limit = Rat(45000, 100)
    /\ risk_manager.total_trades = 2
    /\ risk_manager.winning_trades = 1

\* C38 (session flags): get_recommended_pairs answers for the sessions that
\* were open at the hour of the latest get_current_sessions call, and with
\* the no-active-session answer before any such call, whatever the hour is
\* now; is_session_active leaves the flags as they were.
\* the sessions open at every hour of hs: at the hour of the latest
\* get_current_sessions call, or none when there was no call
OpenAt(hs) ==
    {s \in SessionNames :
        hs # NEVER /\ \A i \in DOMAIN hs : in_hours(SessionManagerInit[s], hs[i])}
PairsAt(hs) ==
    IF OpenAt(hs) = {} THEN NO_ACTIVE_SESSION
    ELSE UNION {recommendations(s) : s \in OpenAt(hs)}
C38_SessionFlags ==
    /\ \A s \in SessionNames : sessions[s].active <=> s \in OpenAt(refreshed)
    /\ last.op = "get_recommended_pairs" => last.ret = PairsAt(refreshed)
    /\ last.op = "is_session_active" => sessions = last.before
\* C38's case: the flags were set while only Tokyo was open, London and New
\* York are open now, and the pairs returned are Tokyo's
C38_Witness ==
    /\ last.op = "get_recommended_pairs"
    /\ refreshed = <<3>>
    /\ hour = 14
    /\ last.ret = recommendations("tokyo")
    /\ last.ret # PairsAt(<<hour>>)
\* C38's other case: no get_current_sessions call yet, London is open, and
\* the answer is the one for no active session
C38_BeforeAnyCall ==
    /\ last.op = "get_recommended_pairs"
    /\ refreshed = NEVER
    /\ hour = 10
    /\ last.ret = NO_ACTIVE_SESSION

\* C39 (DeepSeek retry): a call of analyze_market sends at most max_retries
\* requests, and none when no API key is configured (the key is empty or one
\* of the placeholders); its recommendation is buy, sell or wait; and the
\* result is the parsed first successful reply, or else the simulated analysis.
KeyGiven(api_key) ==
    api_key \notin {"", DEFAULT_DEEPSEEK_API_KEY, PLACEHOLDER_API_KEY}
Succeeding(replies) == {i \in DOMAIN replies : replies[i].success}
AfterRetries ==
    /\ last.requests <= deepseek_max_retries
    /\ last.ret.recommendation \in {"buy", "sell", "wait"}
    /\ last.ret =
          IF Succeeding(last.replies) # {}
          THEN parse_analysis_result(last.replies[last.requests],
                                     last.market_data)
          ELSE get_simulated_analysis(last.market_data)
    /\ \A i \in Succeeding(last.replies) : i = last.requests
C39_DeepSeekRetry ==
    last.op = "analyze_market"
        => /\ AfterRetries
           /\ ~KeyGiven(deepseek.api_key) => last.requests = 0
\* the case that fails: the environment sets no key, CONFIG holds its
\* default, and the call sends three requests before it simulates
C39_RequestsWithoutKey ==
    /\ last.op = "analyze_market"
    /\ deepseek.api_key = DEFAULT_DEEPSEEK_API_KEY
    /\ last.requests = deepseek_max_retries
    /\ Succeeding(last.replies) = {}
    /\ last.ret = get_simulated_analysis(last.market_data)
\* what holds of every call: the rest of C39, and no request when
\* is_configured is false
C39_UnderIsConfigured ==
    last.op = "analyze_market"
        => /\ AfterRetries
           /\ ~is_configured(deepseek.api_key) => last.requests = 0

====
